---- MODULE Spec2Model ----
(***************************************************************************)
(* Sandboxed file-system tools (listFiles, searchText, readFile) of        *)
(* src/src/tools.ts, modelled over a small POSIX file system.              *)
(*                                                                         *)
(* Strings are TLA+ strings; a character is a string of length 1.  Bytes   *)
(* of a file are integers 0..255.  Paths are POSIX paths (Path.sep = "/"). *)
(***************************************************************************)
EXTENDS Integers, Sequences, FiniteSets, TLC

(***************************************************************************)
(* Characters and strings (JavaScript String operations used by the code)  *)
(***************************************************************************)

\* UTF-16 code unit of every character the model uses (String.prototype.sort
\* compares code units; Buffer.toString("utf8") maps bytes to them).
Code ==
  "\n" :> 10 @@ "\r" :> 13 @@ " " :> 32 @@ "-" :> 45 @@ "." :> 46 @@ "/" :> 47 @@
  "0" :> 48 @@ "1" :> 49 @@ "2" :> 50 @@ "3" :> 51 @@ "4" :> 52 @@ "5" :> 53 @@
  "6" :> 54 @@ "7" :> 55 @@ "8" :> 56 @@ "9" :> 57 @@
  "A" :> 65 @@ "B" :> 66 @@ "C" :> 67 @@ "D" :> 68 @@ "E" :> 69 @@ "F" :> 70 @@
  "G" :> 71 @@ "H" :> 72 @@ "I" :> 73 @@ "J" :> 74 @@ "N" :> 78 @@ "P" :> 80 @@ "R" :> 82 @@
  "W" :> 87 @@
  "_" :> 95 @@
  "a" :> 97 @@ "b" :> 98 @@ "c" :> 99 @@ "d" :> 100 @@ "e" :> 101 @@ "f" :> 102 @@
  "g" :> 103 @@ "h" :> 104 @@ "i" :> 105 @@ "j" :> 106 @@ "k" :> 107 @@
  "l" :> 108 @@ "m" :> 109 @@ "n" :> 110 @@ "o" :> 111 @@ "p" :> 112 @@
  "q" :> 113 @@ "r" :> 114 @@ "s" :> 115 @@
  "t" :> 116 @@ "u" :> 117 @@ "v" :> 118 @@ "w" :> 119 @@ "x" :> 120 @@
  "y" :> 121 @@ "z" :> 122 @@
  "@" :> 233 @@ "?" :> 65533

\* "@" stands for U+00E9 (bytes C3 A9 in UTF-8) and "?" for U+FFFD, the
\* replacement character; no file of the model holds the ASCII bytes of "@"
\* or "?".
ReplacementChar == "?"

\* String.fromCharCode(n)
Chr(n) == IF \E c \in DOMAIN Code : Code[c] = n
          THEN CHOOSE c \in DOMAIN Code : Code[c] = n
          ELSE ReplacementChar

CharAt(s, i) == SubSeq(s, i, i)

Min(a, b) == IF a < b THEN a ELSE b

\* s.startsWith(p)
StartsWith(s, p) == Len(p) <= Len(s) /\ SubSeq(s, 1, Len(p)) = p

\* s.endsWith(p)
EndsWith(s, p) == Len(p) <= Len(s) /\ SubSeq(s, Len(s) - Len(p) + 1, Len(s)) = p

\* s.slice(0, n) for n >= 0
SliceTo(s, n) == SubSeq(s, 1, Min(n, Len(s)))

\* s.includes(q): q occurs in s as a contiguous, case-sensitive substring
StrIncludes(s, q) ==
  \E i \in 1..(Len(s) - Len(q) + 1) : SubSeq(s, i, i + Len(q) - 1) = q

\* array.includes(x)
SeqIncludes(seq, x) == \E i \in 1..Len(seq) : seq[i] = x

\* s.split(c) for a one-character separator c: "a//b" gives <<"a", "", "b">>
\* and "" gives <<"">>.
RECURSIVE SplitFrom(_, _, _, _, _)
SplitFrom(s, c, i, cur, acc) ==
  IF i > Len(s) THEN Append(acc, cur)
  ELSE IF CharAt(s, i) = c THEN SplitFrom(s, c, i + 1, "", Append(acc, cur))
  ELSE SplitFrom(s, c, i + 1, cur \o CharAt(s, i), acc)

Split(s, c) == SplitFrom(s, c, 1, "", <<>>)

\* array.join(sep)
RECURSIVE Join(_, _)
Join(segs, sep) ==
  IF Len(segs) = 0 THEN ""
  ELSE IF Len(segs) = 1 THEN segs[1]
  ELSE segs[1] \o sep \o Join(Tail(segs), sep)

\* array.filter(Boolean) on strings: drops the empty strings
FilterNonEmpty(segs) == SelectSeq(segs, LAMBDA x : x # "")

\* s.split(/\r?\n/): a line ends at "\n" or at "\r\n"; a lone "\r" stays in
\* the line.  The k-th line runs from behind the (k-1)-th "\n" to before the
\* k-th one, less the "\r" in front of it.
NewlinePositions(s) == {i \in 1..Len(s) : CharAt(s, i) = "\n"}

\* The position of the k-th of the newlines P of s (0 before the first,
\* Len(s) + 1 after the last)
NthNewline(s, P, k) ==
  IF k = 0 THEN 0
  ELSE IF k > Cardinality(P) THEN Len(s) + 1
  ELSE CHOOSE p \in P : Cardinality({q \in P : q < p}) = k - 1

\* The line of s behind position prev up to the newline (or end) at nl
LineBetween(s, prev, nl) ==
  SubSeq(s, prev + 1,
         IF nl <= Len(s) /\ nl - 1 > prev /\ CharAt(s, nl - 1) = "\r"
           THEN nl - 2 ELSE nl - 1)

SplitLinesAt(s, P) ==
  [k \in 1..(Cardinality(P) + 1) |->
     LineBetween(s, NthNewline(s, P, k - 1), NthNewline(s, P, k))]

SplitLines(s) == SplitLinesAt(s, NewlinePositions(s))

IsSpace(c) == c \in {" ", "\n", "\r"}

\* s.trim()
RECURSIVE Trim(_)
Trim(s) ==
  IF s = "" THEN ""
  ELSE IF IsSpace(CharAt(s, 1)) THEN Trim(Tail(s))
  ELSE IF IsSpace(CharAt(s, Len(s))) THEN Trim(SubSeq(s, 1, Len(s) - 1))
  ELSE s

\* a < b in the order Array.prototype.sort() uses by default: code unit by
\* code unit, a proper prefix first.
RECURSIVE StrLess(_, _)
StrLess(a, b) ==
  IF b = "" THEN FALSE
  ELSE IF a = "" THEN TRUE
  ELSE IF CharAt(a, 1) = CharAt(b, 1) THEN StrLess(Tail(a), Tail(b))
  ELSE Code[CharAt(a, 1)] < Code[CharAt(b, 1)]

\* array.sort() of strings.  The place of seq[j] in the sorted array is its
\* rank: one more than the number of the elements before it in the order (of
\* two equal elements, the one that came first stays first).
RankIn(seq, j) ==
  1 + Cardinality({k \in 1..Len(seq) :
                     StrLess(seq[k], seq[j]) \/ (seq[k] = seq[j] /\ k < j)})

SortByRank(seq, ranks) ==
  IF ranks = <<>> THEN <<>>
  ELSE [r \in 1..Len(seq) |-> seq[CHOOSE j \in 1..Len(seq) : ranks[j] = r]]

SortStrings(seq) == SortByRank(seq, [j \in 1..Len(seq) |-> RankIn(seq, j)])

(***************************************************************************)
(* node:path (POSIX)                                                       *)
(***************************************************************************)

\* normalizeString: drops "" and "." segments, lets ".." remove the segment
\* before it; above the root of an absolute path ".." is dropped.
RECURSIVE NormalizeSegs(_, _)
NormalizeSegs(segs, acc) ==
  IF Len(segs) = 0 THEN acc
  ELSE IF segs[1] = "" \/ segs[1] = "." THEN NormalizeSegs(Tail(segs), acc)
  ELSE IF segs[1] = ".."
    THEN NormalizeSegs(Tail(segs),
                       IF Len(acc) = 0 THEN acc ELSE SubSeq(acc, 1, Len(acc) - 1))
  ELSE NormalizeSegs(Tail(segs), Append(acc, segs[1]))

\* Path.isAbsolute(p)
PathIsAbsolute(p) == Len(p) > 0 /\ CharAt(p, 1) = "/"

\* Path.resolve(from, to) for an absolute from: an absolute to replaces from.
PathResolve(from, to) ==
  "/" \o Join(NormalizeSegs(Split(IF PathIsAbsolute(to) THEN to ELSE from \o "/" \o to,
                                  "/"), <<>>), "/")

\* The segments of an absolute, normalized path ("/" has none).
AbsSegs(p) == FilterNonEmpty(Split(p, "/"))

RECURSIVE CommonPrefixLen(_, _)
CommonPrefixLen(a, b) ==
  IF Len(a) = 0 \/ Len(b) = 0 \/ a[1] # b[1] THEN 0
  ELSE 1 + CommonPrefixLen(Tail(a), Tail(b))

\* Path.relative on segments: one ".." for every segment of from below the
\* common prefix (of length k), then the rest of to.
RelativeBelow(f, t, k) ==
  Join([i \in 1..(Len(f) - k) |-> ".."] \o SubSeq(t, k + 1, Len(t)), "/")

RelativeSegs(f, t) == RelativeBelow(f, t, CommonPrefixLen(f, t))

\* Path.relative(from, to) for absolute paths
PathRelative(from, to) ==
  RelativeSegs(AbsSegs(PathResolve("/", from)), AbsSegs(PathResolve("/", to)))

\* Path.join(dir, name) for an absolute dir: the normalized dir/name
PathJoin(dir, name) ==
  "/" \o Join(NormalizeSegs(Split(dir \o "/" \o name, "/"), <<>>), "/")

\* Path.dirname(p) and Path.basename(p) of the segments of an absolute path
DirnameOfSegs(s) == "/" \o Join(SubSeq(s, 1, Len(s) - 1), "/")
PathDirname(p) == DirnameOfSegs(AbsSegs(p))

BasenameOfSegs(s) == IF Len(s) = 0 THEN "" ELSE s[Len(s)]
PathBasename(p) == BasenameOfSegs(AbsSegs(p))

(***************************************************************************)
(* Path Policy and the root-relative resolver                              *)
(***************************************************************************)

\* deniedByBase that knows the exact names .env and id_rsa only
deniedByBaseExactNames(segments, base) ==
  IF SeqIncludes(segments, ".git")
    THEN [denied |-> TRUE, reason |-> "Reading .git is blocked"]
  ELSE IF SeqIncludes(segments, "node_modules")
    THEN [denied |-> TRUE, reason |-> "Reading node_modules is blocked"]
  ELSE IF SeqIncludes(segments, "output")
    THEN [denied |-> TRUE, reason |-> "Reading output is blocked"]
  ELSE IF base = ".env"
    THEN [denied |-> TRUE, reason |-> "Reading .env is blocked"]
  ELSE IF base = "id_rsa"
    THEN [denied |-> TRUE, reason |-> "Reading SSH keys is blocked"]
  ELSE IF EndsWith(base, ".pem")
    THEN [denied |-> TRUE, reason |-> "Reading .pem files is blocked"]
  ELSE IF EndsWith(base, ".key")
    THEN [denied |-> TRUE, reason |-> "Reading .key files is blocked"]
  ELSE [denied |-> FALSE, reason |-> ""]

\* isDeniedRelPath, from the segments and their last one (base) on
deniedByBase(segments, base) ==
  IF SeqIncludes(segments, ".git")
    THEN [denied |-> TRUE, reason |-> "Reading .git is blocked"]
  ELSE IF SeqIncludes(segments, "node_modules")
    THEN [denied |-> TRUE, reason |-> "Reading node_modules is blocked"]
  ELSE IF SeqIncludes(segments, "output")
    THEN [denied |-> TRUE, reason |-> "Reading output is blocked"]
  ELSE IF base = ".env" \/ StartsWith(base, ".env.")
    THEN [denied |-> TRUE, reason |-> "Reading .env is blocked"]
  ELSE IF base = "id_rsa" \/ StartsWith(base, "id_rsa.")
    THEN [denied |-> TRUE, reason |-> "Reading SSH keys is blocked"]
  ELSE IF EndsWith(base, ".pem")
    THEN [denied |-> TRUE, reason |-> "Reading .pem files is blocked"]
  ELSE IF EndsWith(base, ".key")
    THEN [denied |-> TRUE, reason |-> "Reading .key files is blocked"]
  ELSE [denied |-> FALSE, reason |-> ""]

\* base = segments.at(-1) ?? normalized
deniedBySegments(segments, normalized) ==
  deniedByBase(segments,
               IF Len(segments) > 0 THEN segments[Len(segments)] ELSE normalized)

\* segments = normalized.split("/").filter(Boolean)
deniedNormalized(normalized) ==
  deniedBySegments(FilterNonEmpty(Split(normalized, "/")), normalized)

\* isDeniedRelPath: the deny list on a root-relative path;
\* normalized = rel.split(Path.sep).join("/")
isDeniedRelPath(rel) == deniedNormalized(Join(Split(rel, "/"), "/"))

\* relEscapes that tests for an absolute path only
relEscapesAbsoluteOnly(rel) ==
  IF rel = "" \/ rel = "." THEN FALSE
  ELSE PathIsAbsolute(rel)

\* The escape test shared by resolveInsideRoot and ensureRealpathInsideRoot
relEscapes(rel) ==
  IF rel = "" \/ rel = "." THEN FALSE
  ELSE StartsWith(rel, "..") \/ SeqIncludes(Split(rel, "/"), "..") \/ PathIsAbsolute(rel)

ToolDeniedError(tool, path, reason) ==
  [tag |-> "ToolDeniedError", tool |-> tool, path |-> path, reason |-> reason]

ToolFsError(tool, message) ==
  [tag |-> "ToolFsError", tool |-> tool, message |-> message]

ToolInputError(tool, message) ==
  [tag |-> "ToolInputError", tool |-> tool, message |-> message]

\* An effect that succeeded with value after the file-system calls ops, or
\* failed with err after them
Succeed(value, ops) == [ok |-> TRUE, value |-> value, err |-> <<>>, ops |-> ops]
Fail(err, ops) == [ok |-> FALSE, value |-> <<>>, err |-> err, ops |-> ops]

\* resolveChecked that asks the deny list before it tests for an escape
resolveCheckedPolicyFirst(tool, userPath, abs, rel, denied) ==
  IF denied.denied
    THEN Fail(ToolDeniedError(tool, rel, denied.reason), <<>>)
  ELSE IF relEscapes(rel)
    THEN Fail(ToolDeniedError(tool, userPath, "Path escapes target root"), <<>>)
  ELSE Succeed([abs |-> abs, rel |-> rel], <<>>)

\* resolveChecked without its escape check
resolveCheckedNoEscape(tool, userPath, abs, rel, denied) ==
  IF denied.denied
    THEN Fail(ToolDeniedError(tool, rel, denied.reason), <<>>)
  ELSE Succeed([abs |-> abs, rel |-> rel], <<>>)

\* resolveInsideRoot, from the verdict of the deny list on
resolveChecked(tool, userPath, abs, rel, denied) ==
  IF relEscapes(rel)
    THEN Fail(ToolDeniedError(tool, userPath, "Path escapes target root"), <<>>)
  ELSE IF denied.denied
    THEN Fail(ToolDeniedError(tool, rel, denied.reason), <<>>)
  ELSE Succeed([abs |-> abs, rel |-> rel], <<>>)

\* denied = isDeniedRelPath(rel)
resolveRel(tool, userPath, abs, rel) ==
  resolveChecked(tool, userPath, abs, rel, isDeniedRelPath(rel))

\* rel = Path.relative(rootAbs, abs)
resolveAbs(tool, root, userPath, abs) ==
  resolveRel(tool, userPath, abs, PathRelative(root, abs))

\* resolveInsideRoot: abs = Path.resolve(rootAbs, userPath), then the escape
\* check, then the policy check
resolveInsideRoot(tool, root, userPath) ==
  resolveAbs(tool, root, userPath, PathResolve(root, userPath))

(***************************************************************************)
(* The file system (node:fs/promises).  A file system is a function from   *)
(* absolute normalized paths to nodes:                                     *)
(*   [kind |-> "file", bytes, perm]   perm = the process may read it       *)
(*   [kind |-> "dir",  perm]          perm = the process may list/search   *)
(*   [kind |-> "link", target]        a symbolic link to an absolute path  *)
(***************************************************************************)

FileNode(bytes, perm) == [kind |-> "file", bytes |-> bytes, target |-> "", perm |-> perm]
DirNode(perm) == [kind |-> "dir", bytes |-> <<>>, target |-> "", perm |-> perm]
LinkNode(target) == [kind |-> "link", bytes |-> <<>>, target |-> target, perm |-> TRUE]

FsOk(path) == [ok |-> TRUE, path |-> path, code |-> ""]
FsFail(code) == [ok |-> FALSE, path |-> "", code |-> code]

\* Fs.realpath: resolves the path segment by segment, following every
\* symbolic link.  cur is the real path reached so far, rest the segments
\* still to resolve, next the path of the first of them, seen the links
\* already followed (a link met twice is a loop).
RECURSIVE RealpathWalk(_, _, _, _)
RECURSIVE RealpathStep(_, _, _, _)
RealpathStep(f, next, rest, seen) ==
  IF next \notin DOMAIN f THEN FsFail("ENOENT")
  ELSE IF f[next].kind = "link"
    THEN IF next \in seen THEN FsFail("ELOOP")
         ELSE RealpathWalk(f, "/", AbsSegs(f[next].target) \o Tail(rest),
                           seen \cup {next})
  ELSE RealpathWalk(f, next, Tail(rest), seen)

RealpathWalk(f, cur, rest, seen) ==
  IF Len(rest) = 0 THEN FsOk(cur)
  ELSE IF f[cur].kind # "dir" THEN FsFail("ENOTDIR")
  ELSE IF ~f[cur].perm THEN FsFail("EACCES")
  ELSE RealpathStep(f, PathJoin(cur, rest[1]), rest, seen)

Realpath(f, p) == RealpathWalk(f, "/", AbsSegs(p), {})

\* Fs.readFile, from the real path on
FsReadNode(f, r) ==
  IF ~r.ok THEN [ok |-> FALSE, bytes |-> <<>>, code |-> r.code]
  ELSE IF f[r.path].kind = "dir" THEN [ok |-> FALSE, bytes |-> <<>>, code |-> "EISDIR"]
  ELSE IF ~f[r.path].perm THEN [ok |-> FALSE, bytes |-> <<>>, code |-> "EACCES"]
  ELSE [ok |-> TRUE, bytes |-> f[r.path].bytes, code |-> ""]

\* Fs.readFile(absPath): the bytes of the file the path leads to
FsReadFile(f, p) == FsReadNode(f, Realpath(f, p))

\* The names of the entries of the directory at real path d
ChildNames(f, d) ==
  {PathBasename(p) : p \in {q \in DOMAIN f : q # "/" /\ PathDirname(q) = d}}

\* The order in which readdir enumerates a directory is not specified: the
\* names come in ascending or in descending order.
DirOrders == {"asc", "desc"}

Reverse(seq) == [i \in 1..Len(seq) |-> seq[Len(seq) + 1 - i]]

InOrder(asc, ord) == IF ord = "asc" THEN asc ELSE Reverse(asc)

RECURSIVE SetToSeq(_)
SetToSeq(S) ==
  IF S = {} THEN <<>>
  ELSE <<CHOOSE e \in S : TRUE>> \o SetToSeq(S \ {CHOOSE e \in S : TRUE})

\* Dirents with the type of what an entry leads to (stat), not of the entry
DirentsFollowingLinks(f, d, names) ==
  [i \in 1..Len(names) |->
     [name |-> names[i],
      kind |-> IF Realpath(f, PathJoin(d, names[i])).ok
                 THEN f[Realpath(f, PathJoin(d, names[i])).path].kind
                 ELSE f[PathJoin(d, names[i])].kind]]

\* The directory entries of d for the names, in their order
Dirents(f, d, names) ==
  [i \in 1..Len(names) |->
     [name |-> names[i], kind |-> f[PathJoin(d, names[i])].kind]]

\* Fs.readdir, from the real path on
FsReaddirNode(f, r, ord) ==
  IF ~r.ok THEN [ok |-> FALSE, entries |-> <<>>, code |-> r.code]
  ELSE IF f[r.path].kind # "dir" THEN [ok |-> FALSE, entries |-> <<>>, code |-> "ENOTDIR"]
  ELSE IF ~f[r.path].perm THEN [ok |-> FALSE, entries |-> <<>>, code |-> "EACCES"]
  ELSE [ok |-> TRUE,
        entries |-> Dirents(f, r.path,
                            InOrder(SortStrings(SetToSeq(ChildNames(f, r.path))), ord)),
        code |-> ""]

\* Fs.readdir(dir, {withFileTypes: true}): the entries with the type of the
\* entry itself (a symbolic link is reported as a link, not as its target).
FsReaddir(f, dir, ord) == FsReaddirNode(f, Realpath(f, dir), ord)

\* A step of a tool invocation: a file-system call, or the test of one line
\* of a file for the query ("scan")
FsOp(op, path) == [op |-> op, path |-> path]

(***************************************************************************)
(* Safe reader, realpath containment check, directory walker               *)
(***************************************************************************)

IsContinuation(b) == b >= 128 /\ b <= 191
IsLead(b) == b >= 194 /\ b <= 223

\* Where the bytes lo..hi are cut in two without cutting a two-byte sequence
DecodeCut(bytes, lo, m) ==
  IF IsLead(bytes[m]) /\ IsContinuation(bytes[m + 1])
    THEN (IF m > lo THEN m - 1 ELSE m + 1)
    ELSE m

\* buf.toString("utf8"): an ASCII byte is its character, a two-byte sequence
\* its code point, and every byte that starts no complete sequence is
\* U+FFFD.  The files of the model hold no three- or four-byte sequences.
\* The bytes lo..hi are decoded in two halves.
RECURSIVE Utf8DecodeRange(_, _, _)
RECURSIVE Utf8DecodeHalves(_, _, _, _)
Utf8DecodeHalves(bytes, lo, cut, hi) ==
  Utf8DecodeRange(bytes, lo, cut) \o Utf8DecodeRange(bytes, cut + 1, hi)

Utf8DecodeRange(bytes, lo, hi) ==
  IF lo > hi THEN ""
  ELSE IF lo = hi
    THEN IF bytes[lo] < 128 THEN Chr(bytes[lo]) ELSE ReplacementChar
  ELSE IF hi = lo + 1 /\ IsLead(bytes[lo]) /\ IsContinuation(bytes[hi])
    THEN Chr((bytes[lo] - 192) * 64 + (bytes[hi] - 128))
  ELSE Utf8DecodeHalves(bytes, lo, DecodeCut(bytes, lo, (lo + hi) \div 2), hi)

Utf8Decode(bytes) == Utf8DecodeRange(bytes, 1, Len(bytes))

\* buf.subarray(0, n)
Subarray(bytes, n) == SubSeq(bytes, 1, Min(n, Len(bytes)))

\* readTextOf that truncates at maxBytes already (>= for >)
readTextOfInclusive(bytes, maxBytes) ==
  [content |-> Utf8Decode(IF Len(bytes) >= maxBytes THEN Subarray(bytes, maxBytes)
                                                     ELSE bytes),
   truncated |-> Len(bytes) >= maxBytes]

\* safeReadTextFile, from the bytes read on:
\* truncated = buf.byteLength > maxBytes; slice = truncated ? subarray : buf
readTextOf(bytes, maxBytes) ==
  [content |-> Utf8Decode(IF Len(bytes) > maxBytes THEN Subarray(bytes, maxBytes)
                                                    ELSE bytes),
   truncated |-> Len(bytes) > maxBytes]

safeReadResult(tool, absPath, maxBytes, r) ==
  IF ~r.ok THEN Fail(ToolFsError(tool, r.code), <<FsOp("readFile", absPath)>>)
  ELSE Succeed(readTextOf(r.bytes, maxBytes), <<FsOp("readFile", absPath)>>)

\* safeReadTextFile
safeReadTextFile(f, tool, absPath, maxBytes) ==
  safeReadResult(tool, absPath, maxBytes, FsReadFile(f, absPath))

\* containmentResult that does not let ENOENT pass
containmentResultNoSkip(tool, root, absPath, userPath, rootReal, targetReal) ==
  IF ~rootReal.ok
    THEN Fail(ToolFsError(tool, rootReal.code), <<FsOp("realpath", root)>>)
  ELSE IF ~targetReal.ok
    THEN Fail(ToolFsError(tool, targetReal.code),
              <<FsOp("realpath", root), FsOp("realpath", absPath)>>)
  ELSE IF relEscapes(PathRelative(rootReal.path, targetReal.path))
    THEN Fail(ToolDeniedError(tool, userPath, "Path resolves outside target root"),
              <<FsOp("realpath", root), FsOp("realpath", absPath)>>)
  ELSE Succeed(TRUE, <<FsOp("realpath", root), FsOp("realpath", absPath)>>)

\* containmentResult whose catch turns every failure into a ToolFsError
containmentResultCatchAll(tool, root, absPath, userPath, rootReal, targetReal) ==
  IF ~rootReal.ok
    THEN Fail(ToolFsError(tool, rootReal.code), <<FsOp("realpath", root)>>)
  ELSE IF ~targetReal.ok /\ targetReal.code = "ENOENT"
    THEN Succeed(TRUE, <<FsOp("realpath", root), FsOp("realpath", absPath)>>)
  ELSE IF ~targetReal.ok
    THEN Fail(ToolFsError(tool, targetReal.code),
              <<FsOp("realpath", root), FsOp("realpath", absPath)>>)
  ELSE IF relEscapes(PathRelative(rootReal.path, targetReal.path))
    THEN Fail(ToolFsError(tool, "Failed to resolve path"),
              <<FsOp("realpath", root), FsOp("realpath", absPath)>>)
  ELSE Succeed(TRUE, <<FsOp("realpath", root), FsOp("realpath", absPath)>>)

\* containmentResult that tests the path as given, not its real path
containmentResultLexical(tool, root, absPath, userPath, rootReal, targetReal) ==
  IF ~rootReal.ok
    THEN Fail(ToolFsError(tool, rootReal.code), <<FsOp("realpath", root)>>)
  ELSE IF ~targetReal.ok /\ targetReal.code = "ENOENT"
    THEN Succeed(TRUE, <<FsOp("realpath", root), FsOp("realpath", absPath)>>)
  ELSE IF ~targetReal.ok
    THEN Fail(ToolFsError(tool, targetReal.code),
              <<FsOp("realpath", root), FsOp("realpath", absPath)>>)
  ELSE IF relEscapes(PathRelative(root, absPath))
    THEN Fail(ToolDeniedError(tool, userPath, "Path resolves outside target root"),
              <<FsOp("realpath", root), FsOp("realpath", absPath)>>)
  ELSE Succeed(TRUE, <<FsOp("realpath", root), FsOp("realpath", absPath)>>)

\* ensureRealpathInsideRoot, from the two real paths on
containmentResult(tool, root, absPath, userPath, rootReal, targetReal) ==
  IF ~rootReal.ok
    THEN Fail(ToolFsError(tool, rootReal.code), <<FsOp("realpath", root)>>)
  ELSE IF ~targetReal.ok /\ targetReal.code = "ENOENT"
    THEN Succeed(TRUE, <<FsOp("realpath", root), FsOp("realpath", absPath)>>)
  ELSE IF ~targetReal.ok
    THEN Fail(ToolFsError(tool, targetReal.code),
              <<FsOp("realpath", root), FsOp("realpath", absPath)>>)
  ELSE IF relEscapes(PathRelative(rootReal.path, targetReal.path))
    THEN Fail(ToolDeniedError(tool, userPath, "Path resolves outside target root"),
              <<FsOp("realpath", root), FsOp("realpath", absPath)>>)
  ELSE Succeed(TRUE, <<FsOp("realpath", root), FsOp("realpath", absPath)>>)

\* ensureRealpathInsideRoot
ensureRealpathInsideRoot(f, tool, root, absPath, userPath) ==
  containmentResult(tool, root, absPath, userPath, Realpath(f, root), Realpath(f, absPath))

SKIP_DIRS == {"node_modules", ".git", "output"}

\* walkDir: walkEntries is the loop over the entries of dir from the i-th
\* on, in enumeration order; files and ops are what the walk has collected
\* and done so far.  walkSub goes on after the walk, sub, of a subdirectory.
RECURSIVE walkDir(_, _, _, _)
RECURSIVE walkEntries(_, _, _, _, _, _, _, _)
RECURSIVE walkSub(_, _, _, _, _, _, _, _, _)
RECURSIVE walkRead(_, _, _, _, _)
walkSub(f, root, dir, ord, entries, i, files, ops, sub) ==
  IF ~sub.ok THEN Fail(sub.err, ops \o sub.ops)
  ELSE walkEntries(f, root, dir, ord, entries, i + 1, files \o sub.value, ops \o sub.ops)

\* walkEntries that prunes the entries of the root only
walkEntriesRootOnly(f, root, dir, ord, entries, i, files, ops) ==
  IF i > Len(entries) THEN Succeed(files, ops)
  ELSE IF dir = root /\ entries[i].name \in SKIP_DIRS
    THEN walkEntries(f, root, dir, ord, entries, i + 1, files, ops)
  ELSE IF entries[i].kind = "link"
    THEN walkEntries(f, root, dir, ord, entries, i + 1, files, ops)
  ELSE IF entries[i].kind = "dir"
    THEN walkSub(f, root, dir, ord, entries, i, files, ops,
                 walkDir(f, root, PathJoin(dir, entries[i].name), ord))
  ELSE IF entries[i].kind = "file"
    THEN walkEntries(f, root, dir, ord, entries, i + 1,
                     Append(files, PathRelative(root, PathJoin(dir, entries[i].name))),
                     ops)
  ELSE walkEntries(f, root, dir, ord, entries, i + 1, files, ops)

walkEntries(f, root, dir, ord, entries, i, files, ops) ==
  IF i > Len(entries) THEN Succeed(files, ops)
  ELSE IF entries[i].name \in SKIP_DIRS
    THEN walkEntries(f, root, dir, ord, entries, i + 1, files, ops)
  ELSE IF entries[i].kind = "link"
    THEN walkEntries(f, root, dir, ord, entries, i + 1, files, ops)
  ELSE IF entries[i].kind = "dir"
    THEN walkSub(f, root, dir, ord, entries, i, files, ops,
                 walkDir(f, root, PathJoin(dir, entries[i].name), ord))
  ELSE IF entries[i].kind = "file"
    THEN walkEntries(f, root, dir, ord, entries, i + 1,
                     Append(files, PathRelative(root, PathJoin(dir, entries[i].name))),
                     ops)
  ELSE walkEntries(f, root, dir, ord, entries, i + 1, files, ops)

\* walkRead that takes a directory it cannot read for an empty one
walkReadLenient(f, root, dir, ord, rd) ==
  IF ~rd.ok THEN Succeed(<<>>, <<FsOp("readdir", dir)>>)
  ELSE walkEntries(f, root, dir, ord, rd.entries, 1, <<>>, <<FsOp("readdir", dir)>>)

walkRead(f, root, dir, ord, rd) ==
  IF ~rd.ok THEN Fail(ToolFsError("listFiles", rd.code), <<FsOp("readdir", dir)>>)
  ELSE walkEntries(f, root, dir, ord, rd.entries, 1, <<>>, <<FsOp("readdir", dir)>>)

walkDir(f, root, dir, ord) == walkRead(f, root, dir, ord, FsReaddir(f, dir, ord))

DEFAULT_MAX_FILES == 400
DEFAULT_MAX_FILE_BYTES == 20000
DEFAULT_MAX_MATCHES == 50

\* all.filter((rel) => !isDeniedRelPath(rel).denied)
filterAllowed(all) == SelectSeq(all, LAMBDA rel : ~isDeniedRelPath(rel).denied)

\* listedFiles that caps before it sorts
listedFilesCapFirst(all, maxFiles) == SortStrings(SliceTo(filterAllowed(all), maxFiles))

\* .filter(...).sort().slice(0, maxFiles)
listedFiles(all, maxFiles) == SliceTo(SortStrings(filterAllowed(all)), maxFiles)

\* listFilesEffect, from the walk on
listFilesOf(root, maxFiles, all) ==
  IF ~all.ok THEN Fail(all.err, all.ops)
  ELSE Succeed([root |-> root, files |-> listedFiles(all.value, maxFiles)], all.ops)

\* listFilesEffect: walk, filter through the deny list, sort, cap
listFilesEffect(f, root, maxFiles, ord) ==
  listFilesOf(root, maxFiles, walkDir(f, root, root, ord))

\* readFileEffect, after the read
readFileDone(root, resolved, inside, file) ==
  IF ~file.ok THEN Fail(file.err, inside.ops \o file.ops)
  ELSE Succeed([root |-> root, path |-> resolved.value.rel,
                content |-> file.value.content, truncated |-> file.value.truncated],
               inside.ops \o file.ops)

\* readFileEffect, after the realpath containment check
readFileChecked(f, root, maxBytes, resolved, inside) ==
  IF ~inside.ok THEN Fail(inside.err, inside.ops)
  ELSE readFileDone(root, resolved, inside,
                    safeReadTextFile(f, "readFile", resolved.value.abs, maxBytes))

\* readFileEffect, after the resolver
readFileResolved(f, root, maxBytes, resolved) ==
  IF ~resolved.ok THEN Fail(resolved.err, <<>>)
  ELSE readFileChecked(f, root, maxBytes, resolved,
                       ensureRealpathInsideRoot(f, "readFile", root,
                                                resolved.value.abs, resolved.value.rel))

\* readFileEffect: resolver, realpath containment check, safe reader
readFileEffect(f, root, relPath, maxBytes) ==
  readFileResolved(f, root, maxBytes, resolveInsideRoot("readFile", root, relPath))

\* s.toLowerCase() (the /i flag of the extension test)
LowerChar(c) == IF Code[c] >= 65 /\ Code[c] <= 90 THEN Chr(Code[c] + 32) ELSE c

RECURSIVE ToLowerCase(_)
ToLowerCase(s) ==
  IF s = "" THEN "" ELSE LowerChar(CharAt(s, 1)) \o ToLowerCase(Tail(s))

BINARY_EXTENSIONS ==
  {"png", "jpg", "jpeg", "gif", "webp", "ico", "zip", "gz", "tgz", "jar", "pdf",
   "woff", "woff2"}

\* /\.(png|jpg|jpeg|gif|webp|ico|zip|gz|tgz|jar|pdf|woff2?)$/i.test(rel)
hasBinaryExtension(lower) == \E e \in BINARY_EXTENSIONS : EndsWith(lower, "." \o e)
isBinaryPath(rel) == hasBinaryExtension(ToLowerCase(rel))

SEARCH_MAX_FILE_BYTES == 200000
PREVIEW_CHARS == 200

\* scanLines that numbers the lines from 0
RECURSIVE scanLinesZeroBased(_, _, _, _, _, _, _)
scanLinesZeroBased(lines, i, rel, query, maxMatches, matches, ops) ==
  IF i > Len(lines) THEN [matches |-> matches, ops |-> ops]
  ELSE IF Len(matches) >= maxMatches THEN [matches |-> matches, ops |-> ops]
  ELSE IF ~StrIncludes(lines[i], query)
    THEN scanLinesZeroBased(lines, i + 1, rel, query, maxMatches, matches,
                            Append(ops, FsOp("scan", rel)))
  ELSE scanLinesZeroBased(lines, i + 1, rel, query, maxMatches,
                          Append(matches, [path |-> rel, line |-> i - 1,
                                           preview |-> SliceTo(lines[i], PREVIEW_CHARS)]),
                          Append(ops, FsOp("scan", rel)))

\* The inner loop of searchTextEffect: the lines of one file from the i-th
\* on.  Each line that the loop tests for the query leaves a "scan" step of
\* the file in ops, after the read of the file.
RECURSIVE scanLines(_, _, _, _, _, _, _)
scanLines(lines, i, rel, query, maxMatches, matches, ops) ==
  IF i > Len(lines) THEN [matches |-> matches, ops |-> ops]
  ELSE IF Len(matches) >= maxMatches THEN [matches |-> matches, ops |-> ops]
  ELSE IF ~StrIncludes(lines[i], query)
    THEN scanLines(lines, i + 1, rel, query, maxMatches, matches,
                   Append(ops, FsOp("scan", rel)))
  ELSE scanLines(lines, i + 1, rel, query, maxMatches,
                 Append(matches, [path |-> rel, line |-> i,
                                  preview |-> SliceTo(lines[i], PREVIEW_CHARS)]),
                 Append(ops, FsOp("scan", rel)))

\* The outer loop of searchTextEffect: the listed files from the i-th on;
\* searchResolved goes on after the resolver, searchRead after the read.
RECURSIVE searchFiles(_, _, _, _, _, _, _, _)
RECURSIVE searchResolved(_, _, _, _, _, _, _, _, _)
RECURSIVE searchRead(_, _, _, _, _, _, _, _, _)
RECURSIVE searchScanned(_, _, _, _, _, _, _)
searchScanned(f, root, query, maxMatches, files, i, scanned) ==
  searchFiles(f, root, query, maxMatches, files, i + 1, scanned.matches, scanned.ops)

\* searchRead that passes over a file it cannot read
searchReadLenient(f, root, query, maxMatches, files, i, matches, ops, file) ==
  IF ~file.ok
    THEN searchFiles(f, root, query, maxMatches, files, i + 1, matches, ops \o file.ops)
  ELSE searchScanned(f, root, query, maxMatches, files, i,
                     scanLines(SplitLines(file.value.content), 1, files[i], query,
                               maxMatches, matches, ops \o file.ops))

searchRead(f, root, query, maxMatches, files, i, matches, ops, file) ==
  IF ~file.ok THEN Fail(file.err, ops \o file.ops)
  ELSE searchScanned(f, root, query, maxMatches, files, i,
                     scanLines(SplitLines(file.value.content), 1, files[i], query,
                               maxMatches, matches, ops \o file.ops))

searchResolved(f, root, query, maxMatches, files, i, matches, ops, resolved) ==
  IF ~resolved.ok THEN Fail(resolved.err, ops)
  ELSE searchRead(f, root, query, maxMatches, files, i, matches, ops,
                  safeReadTextFile(f, "searchText", resolved.value.abs,
                                   SEARCH_MAX_FILE_BYTES))

\* searchFiles without the test of the cap before each file
searchFilesNoBreak(f, root, query, maxMatches, files, i, matches, ops) ==
  IF i > Len(files) THEN Succeed(matches, ops)
  ELSE IF isBinaryPath(files[i])
    THEN searchFiles(f, root, query, maxMatches, files, i + 1, matches, ops)
  ELSE searchResolved(f, root, query, maxMatches, files, i, matches, ops,
                      resolveInsideRoot("searchText", root, files[i]))

searchFiles(f, root, query, maxMatches, files, i, matches, ops) ==
  IF i > Len(files) THEN Succeed(matches, ops)
  ELSE IF Len(matches) >= maxMatches THEN Succeed(matches, ops)
  ELSE IF isBinaryPath(files[i])
    THEN searchFiles(f, root, query, maxMatches, files, i + 1, matches, ops)
  ELSE searchResolved(f, root, query, maxMatches, files, i, matches, ops,
                      resolveInsideRoot("searchText", root, files[i]))

\* searchTextEffect, after the search
searchDone(root, query, found) ==
  IF ~found.ok THEN Fail(found.err, found.ops)
  ELSE Succeed([root |-> root, query |-> query, matches |-> found.value], found.ops)

\* searchTextEffect, after the listing
searchListed(f, root, query, maxMatches, listed) ==
  IF ~listed.ok THEN Fail(listed.err, listed.ops)
  ELSE searchDone(root, query,
                  searchFiles(f, root, query, maxMatches, listed.value.files, 1, <<>>,
                              listed.ops))

\* searchTextEffect: list with the default cap, then search file by file
searchTextEffect(f, root, query, maxMatches, ord) ==
  searchListed(f, root, query, maxMatches,
               listFilesEffect(f, root, DEFAULT_MAX_FILES, ord))

(***************************************************************************)
(* The tool facade: raw input, validation, logging, execute                *)
(***************************************************************************)

\* A JSON scalar as the caller may send it.  t is what the code can tell
\* apart: "undefined", "null", "string", "number"; for a string s is its
\* value; for a number s is "finite", "NaN" or "Infinity" and a finite
\* number is h/2 (so 0.5 and 2.5 are numbers).
Scalar(t, s, h) == [t |-> t, s |-> s, h |-> h]
Undefined == Scalar("undefined", "", 0)
JNull == Scalar("null", "", 0)
JString(s) == Scalar("string", s, 0)
JNumber(h) == Scalar("number", "finite", h)
JInt(n) == JNumber(2 * n)
JNaN == Scalar("number", "NaN", 0)
JInfinity == Scalar("number", "Infinity", 0)

\* The raw input of execute: t is "object" for a JSON object, whose fields
\* follow (an absent field is Undefined), and else "array", "null",
\* "undefined", "string" or "number" for an input that carries no fields.
RawInput(t, path, query, max, maxMatches, maxBytes) ==
  [t |-> t, path |-> path, query |-> query, max |-> max,
   maxMatches |-> maxMatches, maxBytes |-> maxBytes]

NonObject(t) == RawInput(t, Undefined, Undefined, Undefined, Undefined, Undefined)

\* obj.<field> after typeof input === "object" && input !== null ? input :
\* {} (or null, read with ?.): Undefined unless the input is an object that
\* has the field
Field(input, name) == IF input.t = "object" THEN input[name] ELSE Undefined

\* typeof v === "number" && Number.isFinite(v) && v > 0
isValidCap(v) == v.t = "number" /\ v.s = "finite" /\ v.h > 0

\* Math.floor(v) of a finite number
MathFloor(v) == v.h \div 2

\* effectiveCap that takes 0 for a valid cap (>= 0 for > 0)
effectiveCapNonNegative(v, default) ==
  IF v.t = "number" /\ v.s = "finite" /\ v.h >= 0 THEN MathFloor(v) ELSE default

\* The cap an execute derives from a raw optional field
effectiveCap(v, default) == IF isValidCap(v) THEN MathFloor(v) ELSE default

\* isBlankOrNotString that does not trim
isBlankOrNotStringUntrimmed(v) == v.t # "string" \/ Len(v.s) = 0

\* typeof v !== "string" || v.trim().length === 0
isBlankOrNotString(v) == v.t # "string" \/ Len(Trim(v.s)) = 0

Event(type, tool, data) == [type |-> type, tool |-> tool, data |-> data]

Returned(value) == [status |-> "returned", value |-> value]
Threw(err) == [status |-> "threw", err |-> err]

\* The Exit of an effect: its value, or the Cause of its failure.  A typed
\* failure (Effect.fail, the catch of Effect.tryPromise) has the cause Fail.
CauseFail(err) == [tag |-> "Fail", error |-> err]
ExitSuccess(value) == [tag |-> "Success", value |-> value, cause |-> <<>>]
ExitFailure(cause) == [tag |-> "Failure", value |-> <<>>, cause |-> cause]

\* Effect.exit(eff)
ExitOf(r) == IF r.ok THEN ExitSuccess(r.value) ELSE ExitFailure(CauseFail(r.err))

\* Cause.failureOption(cause)
failureOption(cause) ==
  IF cause.tag = "Fail" THEN [some |-> TRUE, value |-> cause.error]
  ELSE [some |-> FALSE, value |-> <<>>]

\* runOrThrow that throws the cause of every failure
runOrThrowCause(exit) ==
  IF exit.tag = "Failure" THEN Threw(exit.cause) ELSE Returned(exit.value)

\* runOrThrow, from the exit on: the value, or thrown the typed failure of
\* the cause, or the cause itself when it holds none
runOrThrow(exit) ==
  IF exit.tag = "Failure"
    THEN IF failureOption(exit.cause).some THEN Threw(failureOption(exit.cause).value)
         ELSE Threw(exit.cause)
  ELSE Returned(exit.value)

\* The emission of an event, as a step of the invocation
EmitStep(type) == FsOp("emit", type)

\* withToolLoggingExit that emits nothing when the effect has failed
withToolLoggingExitSilentFailure(tool, input, r, summary, exit) ==
  [outcome |-> runOrThrow(exit),
   ops |-> r.ops,
   events |-> IF exit.tag = "Failure" THEN <<Event("tool:start", tool, input)>>
              ELSE <<Event("tool:start", tool, input),
                     Event("tool:success", tool, summary)>>,
   steps |-> IF exit.tag = "Failure" THEN <<EmitStep("tool:start")>> \o r.ops
             ELSE <<EmitStep("tool:start")>> \o r.ops \o <<EmitStep("tool:success")>>]

\* withToolLogging under runOrThrow, from the exit of the effect on:
\* tool:start was emitted before the effect ran; then tool:error with the
\* cause, or tool:success with the summary; the exit goes on to runOrThrow
\* unchanged (Effect.failCause(exit.cause), or exit.value).  Durations are
\* not modelled.
withToolLoggingExit(tool, input, r, summary, exit) ==
  [outcome |-> runOrThrow(exit),
   ops |-> r.ops,
   events |-> <<Event("tool:start", tool, input),
                IF exit.tag = "Failure" THEN Event("tool:error", tool, exit.cause)
                                        ELSE Event("tool:success", tool, summary)>>,
   steps |-> <<EmitStep("tool:start")>> \o r.ops
               \o <<EmitStep(IF exit.tag = "Failure" THEN "tool:error"
                                                     ELSE "tool:success")>>]

\* withToolLogging under runOrThrow: r is the run of the effect
withToolLogging(tool, input, r, summary) ==
  withToolLoggingExit(tool, input, r, summary, ExitOf(r))

\* An execute that throws ToolInputError before anything else
rejectInput(tool) ==
  [outcome |-> Threw(ToolInputError(tool, "Invalid input")),
   ops |-> <<>>, events |-> <<>>, steps |-> <<>>]

listFilesSummary(r) ==
  IF r.ok THEN [fileCount |-> Len(r.value.files), sample |-> SliceTo(r.value.files, 20)]
  ELSE <<>>

listFilesLogged(maxFiles, r) ==
  withToolLogging("listFiles", [max |-> maxFiles], r, listFilesSummary(r))

listFilesCapped(f, root, ord, maxFiles) ==
  listFilesLogged(maxFiles, listFilesEffect(f, root, maxFiles, ord))

\* listFiles.execute
listFilesExecute(f, root, input, ord) ==
  listFilesCapped(f, root, ord, effectiveCap(Field(input, "max"), DEFAULT_MAX_FILES))

searchTextSummary(r) ==
  IF r.ok THEN [matchCount |-> Len(r.value.matches),
                sample |-> SliceTo(r.value.matches, 10)]
  ELSE <<>>

searchTextLogged(query, maxMatches, r) ==
  withToolLogging("searchText", [query |-> query, maxMatches |-> maxMatches], r,
                  searchTextSummary(r))

searchTextCapped(f, root, ord, query, maxMatches) ==
  searchTextLogged(query, maxMatches, searchTextEffect(f, root, query, maxMatches, ord))

\* searchText.execute
searchTextExecute(f, root, input, ord) ==
  IF isBlankOrNotString(Field(input, "query")) THEN rejectInput("searchText")
  ELSE searchTextCapped(f, root, ord, Field(input, "query").s,
                        effectiveCap(Field(input, "maxMatches"), DEFAULT_MAX_MATCHES))

\* The sha256_16 of the summary is not modelled.
readFileSummary(r) ==
  IF r.ok THEN [path |-> r.value.path, bytes |-> Len(r.value.content),
                truncated |-> r.value.truncated]
  ELSE <<>>

readFileLogged(path, maxBytes, r) ==
  withToolLogging("readFile", [path |-> path, maxBytes |-> maxBytes], r,
                  readFileSummary(r))

readFileCapped(f, root, path, maxBytes) ==
  readFileLogged(path, maxBytes, readFileEffect(f, root, path, maxBytes))

\* readFile.execute
readFileExecute(f, root, input) ==
  IF isBlankOrNotString(Field(input, "path")) THEN rejectInput("readFile")
  ELSE readFileCapped(f, root, Field(input, "path").s,
                      effectiveCap(Field(input, "maxBytes"), DEFAULT_MAX_FILE_BYTES))

(***************************************************************************)
(* The environment: directory trees and caller inputs                      *)
(***************************************************************************)

\* Buffer.from(s, "utf8") of an ASCII string
AsciiBytes(s) == [i \in 1..Len(s) |-> Code[CharAt(s, i)]]

\* The line of the long file: "foo", then 202 times "x"
X8 == "xxxxxxxx"
X64 == X8 \o X8 \o X8 \o X8 \o X8 \o X8 \o X8 \o X8
LongLine == "foo" \o X64 \o X64 \o X64 \o X8 \o "xx"

\* Always there: the root /w with a.txt, b.txt, d/c.txt; /etc/passwd outside
\* the root; /l, a symbolic link to the root.
BaseTree ==
  "/" :> DirNode(TRUE) @@
  "/etc" :> DirNode(TRUE) @@
  "/etc/passwd" :> FileNode(AsciiBytes("root\n"), TRUE) @@
  "/l" :> LinkNode("/w") @@
  "/w" :> DirNode(TRUE) @@
  "/w/a.txt" :> FileNode(AsciiBytes("0123456789ABCDEFGHIJ"), TRUE) @@
  "/w/b.txt" :> FileNode(AsciiBytes("foo\nbar\r\nfoo bar\n"), TRUE) @@
  "/w/d" :> DirNode(TRUE) @@
  "/w/d/c.txt" :> FileNode(AsciiBytes("x\n\nfoo"), TRUE)

\* What a tree may hold besides, by feature
FeatureTree(feature) ==
  CASE feature = "secrets" ->
         "/w/.env" :> FileNode(AsciiBytes("foo\n"), TRUE) @@
         "/w/.env.local" :> FileNode(AsciiBytes("foo\n"), TRUE) @@
         "/w/id_rsa" :> FileNode(AsciiBytes("foo\n"), TRUE) @@
         "/w/id_rsa.pub" :> FileNode(AsciiBytes("foo\n"), TRUE) @@
         "/w/x.pem" :> FileNode(AsciiBytes("foo\n"), TRUE) @@
         "/w/d/x.key" :> FileNode(AsciiBytes("foo\n"), TRUE)
    [] feature = "pruned" ->
         "/w/node_modules" :> DirNode(TRUE) @@
         "/w/node_modules/m.txt" :> FileNode(AsciiBytes("foo\n"), TRUE) @@
         "/w/d/.git" :> DirNode(TRUE) @@
         "/w/d/.git/cfg" :> FileNode(AsciiBytes("foo\n"), TRUE) @@
         "/w/output" :> DirNode(FALSE) @@
         "/w/output/o.txt" :> FileNode(AsciiBytes("foo\n"), TRUE)
    [] feature = "linksOut" ->
         "/w/leak.txt" :> LinkNode("/etc/passwd") @@
         "/w/out.pem" :> LinkNode("/etc/passwd") @@
         "/w/escape" :> LinkNode("/etc")
    [] feature = "linksIn" ->
         "/w/.env" :> FileNode(AsciiBytes("foo\n"), TRUE) @@
         "/w/link.txt" :> LinkNode("/w/.env") @@
         "/w/dl" :> LinkNode("/w/d") @@
         "/w/loop" :> LinkNode("/w/loop")
    [] feature = "dotdot" ->
         "/w/..x" :> FileNode(AsciiBytes("foo\n"), TRUE)
    [] feature = "binary" ->
         "/w/p.PNG" :> FileNode(AsciiBytes("foo\n"), TRUE)
    [] feature = "locked" ->
         "/w/d/locked" :> DirNode(FALSE) @@
         "/w/n.txt" :> FileNode(AsciiBytes("foo\n"), FALSE)
    [] feature = "unreadable" ->
         "/w/u.txt" :> FileNode(AsciiBytes("foo\n"), FALSE)
    [] feature = "text" ->
         "/w/e.txt" :> FileNode(AsciiBytes("caf") \o <<195, 169>> \o AsciiBytes("\nfoo"), TRUE) @@
         "/w/long.txt" :> FileNode(AsciiBytes(LongLine \o "\n"), TRUE)

Features ==
  {"secrets", "pruned", "linksOut", "linksIn", "dotdot", "binary", "locked",
   "unreadable", "text"}

\* At most MaxFeatures features in one tree
MaxFeatures == 1

RECURSIVE TreeOf(_)
TreeOf(fset) ==
  IF fset = {} THEN BaseTree
  ELSE LET x == CHOOSE x \in fset : TRUE IN FeatureTree(x) @@ TreeOf(fset \ {x})

Trees == {TreeOf(fset) : fset \in {S \in SUBSET Features : Cardinality(S) <= MaxFeatures}}

\* The directory the tool set is made for, as given to makeRepoTools
RootDirs == {"/w", "/w/", "/l"}

ReadPaths ==
  {"a.txt", "./a.txt", "b.txt", "d/c.txt", "d/../a.txt", "d", ".", "nope.txt",
   "a.txt/x", "a.txt ", "../etc/passwd", "../../etc/passwd", "/etc/passwd",
   "/w/a.txt", "../w/a.txt", ".env", "d/../.env", ".env.local", "id_rsa",
   "id_rsa.pub", "x.pem", "d/x.key", "node_modules/m.txt", "d/.git/cfg",
   "output/o.txt", "../node_modules/x", "node_modules/../a.txt", "leak.txt",
   "out.pem", "escape/passwd", "link.txt",
   "dl/c.txt", "loop", "..x", "p.PNG", "d/locked/f", "n.txt", "long.txt", "e.txt"}

\* Values of a required field that the code must reject
BadRequired == {Undefined, JNull, JInt(5), JString(""), JString(" "), JString(" \n")}

\* Values of an optional cap that are absent or invalid
BadCaps == {Undefined, JNull, JString("3"), JNaN, JInfinity, JInt(0), JInt(-5), JNumber(-1)}

NonObjects == {NonObject(t) : t \in {"undefined", "null", "string", "number", "array"}}

ReadCaps == BadCaps \cup {JNumber(1), JInt(4), JNumber(9), JInt(10), JInt(20), JInt(21), JInt(20000)}

ReadInputs ==
  NonObjects
  \cup {RawInput("object", p, Undefined, Undefined, Undefined, c) :
          p \in BadRequired, c \in {Undefined, JInt(10)}}
  \cup {RawInput("object", JString(p), Undefined, Undefined, Undefined, c) :
          p \in ReadPaths, c \in {Undefined, JInt(3)}}
  \cup {RawInput("object", JString(p), Undefined, Undefined, Undefined, c) :
          p \in {"a.txt", "e.txt"}, c \in ReadCaps}

ListCaps == BadCaps \cup {JNumber(1), JInt(1), JInt(2), JNumber(5), JInt(3), JInt(400), JInt(500)}

ListInputs ==
  NonObjects
  \cup {RawInput("object", Undefined, Undefined, c, Undefined, Undefined) : c \in ListCaps}

SearchCaps == BadCaps \cup {JNumber(1), JInt(1), JInt(2), JNumber(5), JInt(3), JInt(50)}

SearchInputs ==
  NonObjects
  \cup {RawInput("object", Undefined, q, Undefined, c, Undefined) :
          q \in BadRequired, c \in {Undefined, JInt(1)}}
  \cup {RawInput("object", Undefined, JString(q), Undefined, c, Undefined) :
          q \in {"foo", "o", "Foo", "bar", "x", "foo bar", "zz"}, c \in {Undefined, JInt(1), JInt(2)}}
  \cup {RawInput("object", Undefined, JString("foo"), Undefined, c, Undefined) :
          c \in SearchCaps}

(***************************************************************************)
(* The application configuration (src/src/config.ts) and the OpenRouter    *)
(* client (src/src/openrouter.ts).  An environment maps the names of the   *)
(* variables the code reads to a string or to undefined.                   *)
(***************************************************************************)

\* Effect.succeed(value), Effect.fail(err)
EffectSucceed(value) == [ok |-> TRUE, value |-> value]
EffectFail(err) == [ok |-> FALSE, err |-> err]

ConfigError(key) ==
  [tag |-> "ConfigError", key |-> key,
   message |-> "Missing required env var " \o key]

\* value?.trim() ?? ""
trimmedOrEmpty(value) == IF value.t = "undefined" THEN "" ELSE Trim(value.s)

\* value?.trim() || fallback
trimmedOr(value, fallback) ==
  IF trimmedOrEmpty(value) = "" THEN fallback ELSE trimmedOrEmpty(value)

\* readRequiredEnv, from the trimmed value on
requiredValue(key, trimmed) ==
  IF Len(trimmed) = 0 THEN EffectFail(ConfigError(key)) ELSE EffectSucceed(trimmed)

\* readRequiredEnv that takes the value as it is set
readRequiredEnvUntrimmed(e, key) ==
  requiredValue(key, IF e[key].t = "undefined" THEN "" ELSE e[key].s)

readRequiredEnv(e, key) == requiredValue(key, trimmedOrEmpty(e[key]))

\* input.replace(/\/+$/, "")
RECURSIVE normalizeBaseUrl(_)
normalizeBaseUrl(input) ==
  IF EndsWith(input, "/") THEN normalizeBaseUrl(SubSeq(input, 1, Len(input) - 1))
  ELSE input

LogLevelNames == {"trace", "debug", "info", "warn", "error"}

logLevelOf(lower) == IF lower \in LogLevelNames THEN lower ELSE "info"

\* parseLogLevel: (value ?? "").toLowerCase(), then the switch
parseLogLevel(value) ==
  logLevelOf(ToLowerCase(IF value.t = "undefined" THEN "" ELSE value.s))

\* DEMO_QUESTION?.trim() || undefined
demoQuestionOf(value) ==
  IF trimmedOrEmpty(value) = "" THEN Undefined ELSE JString(trimmedOrEmpty(value))

\* readAppConfig, after the two required variables
appConfigOf(e, grokKey, grokModel) ==
  IF ~grokKey.ok THEN EffectFail(grokKey.err)
  ELSE IF ~grokModel.ok THEN EffectFail(grokModel.err)
  ELSE EffectSucceed(
         [grokKey |-> grokKey.value,
          grokModel |-> grokModel.value,
          baseUrl |-> normalizeBaseUrl(trimmedOr(e["OPENROUTER_BASE_URL"],
                                                 "https://openrouter.ai/api/v1")),
          logLevel |-> parseLogLevel(e["LOG_LEVEL"]),
          demoTargetDir |-> trimmedOr(e["DEMO_TARGET_DIR"], "."),
          demoQuestion |-> demoQuestionOf(e["DEMO_QUESTION"])])

\* readAppConfig: GROK_KEY, then GROK_MODEL, then the optional variables
readAppConfig(e) ==
  appConfigOf(e, readRequiredEnv(e, "GROK_KEY"), readRequiredEnv(e, "GROK_MODEL"))

\* The errors of the HTTP layer (Data.TaggedError)
NetworkError(message) == [tag |-> "NetworkError", message |-> message]
HttpError(status, bodyText) ==
  [tag |-> "HttpError", status |-> status, bodyText |-> bodyText]
ParseError(bodyText) ==
  [tag |-> "ParseError", message |-> "Failed to parse JSON response",
   bodyText |-> bodyText]

\* What one fetch does: it resolves with a response, or it rejects with an
\* Error named "AbortError", with another Error ("TypeError", message
\* "fetch failed"), or with the abort reason of the timeout, the string
\* "timeout".
Response(status, bodyText) ==
  [kind |-> "response", status |-> status, bodyText |-> bodyText]
Rejected(what) == [kind |-> "rejected", what |-> what]

\* resp.ok
ResponseOk(status) == status >= 200 /\ status <= 299

\* JSON.parse on the body texts of the model: "{}" and an object with an id
\* parse, every other text throws.
JsonParse(text) ==
  IF text = "{}" THEN EffectSucceed(<<>>)
  ELSE IF text = "{\"id\":\"r\"}" THEN EffectSucceed([id |-> "r"])
  ELSE EffectFail("SyntaxError")

\* The catch of request for what fetch rejected with
caught(what) ==
  IF what = "AbortError" THEN NetworkError("Request aborted")
  ELSE IF what = "TypeError" THEN NetworkError("fetch failed")
  ELSE NetworkError("Network error")

\* request, from the parsed body on
requestParsed(bodyText, parsed) ==
  IF ~parsed.ok THEN EffectFail(ParseError(bodyText))
  ELSE EffectSucceed([body |-> parsed.value])

\* request: one attempt, from the settling of its fetch on
request(fetched) ==
  IF fetched.kind = "rejected" THEN EffectFail(caught(fetched.what))
  ELSE IF ~ResponseOk(fetched.status)
    THEN EffectFail(HttpError(fetched.status, fetched.bodyText))
  ELSE requestParsed(fetched.bodyText,
                     IF Len(fetched.bodyText) = 0 THEN EffectSucceed(<<>>)
                     ELSE JsonParse(fetched.bodyText))

\* isRetriableStatus that takes every client and server error
isRetriableStatusAnyError(status) == status >= 400

isRetriableStatus(status) ==
  status = 408 \/ status = 409 \/ status = 425 \/ status = 429 \/ status >= 500

MAX_RETRIES == 3
baseMs == 200

\* shouldRetry of the client's schedule
shouldRetry(err) ==
  IF err.tag = "NetworkError" THEN TRUE
  ELSE IF err.tag = "ParseError" THEN FALSE
  ELSE IF err.tag = "HttpError" THEN isRetriableStatus(err.status)
  ELSE FALSE

\* Schedule.recurs(n), asked after made recurrences: it recurs n times
recurs(n, made) == made < n

\* Schedule.exponential(base): the delay before recurrence made + 1
exponential(base, made) == base * 2 ^ made

\* retrySchedule that recurs maxRetries times (not maxRetries - 1)
retryScheduleOneMore(maxRetries, retryInput, made) ==
  retryInput /\ recurs(maxRetries, made)

\* retrySchedule: does the schedule recur after made recurrences on an
\* error for which opts.shouldRetry gave retryInput
retrySchedule(maxRetries, retryInput, made) ==
  retryInput /\ recurs(maxRetries - 1, made)

\* The schedule of the client
schedule(err, made) == retrySchedule(MAX_RETRIES, shouldRetry(err), made)

\* No invocation, and no outcome yet
NoCall == [tool |-> "none", input |-> NonObject("undefined"), ord |-> "asc"]
NoOutcome == [status |-> "none"]

(***************************************************************************)
(* Concurrent invocations.  The executes of one tool set run on one       *)
(* thread: an invocation runs from its call to its first file-system call *)
(* and then from the completion of each file-system call to the next one  *)
(* or to its end, and between two such steps any other invocation may     *)
(* take steps.  What an invocation keeps between its steps is local to    *)
(* it; the tool set holds rootAbs and the event log.                      *)
(***************************************************************************)

\* The invocations in flight at one time
Procs == {"p", "q"}

IdleProc == [pc |-> "idle"]

\* An activation of walkDir: its directory, the entries once readdir gave
\* them, the entry the loop is at, and its array files
Frame(dir) == [dir |-> dir, entries |-> <<>>, i |-> 0, files |-> <<>>]

\* The locals of an invocation at pc: its call, its cap, and nothing done
Locals(pc0, tool, input, ord, cap, emitted, thrown) ==
  [pc |-> pc0, call |-> [tool |-> tool, input |-> input, ord |-> ord],
   cap |-> cap, resolved |-> <<>>, rootReal |-> <<>>, stack |-> <<>>,
   listed |-> <<>>, i |-> 0, matches |-> <<>>, ops |-> <<>>,
   events |-> emitted, outcome |-> thrown]

\* execute up to the start of its effect: tool:start is emitted
Started(pc0, tool, input, ord, cap, startInput) ==
  Locals(pc0, tool, input, ord, cap, <<Event("tool:start", tool, startInput)>>,
         NoOutcome)

\* execute that throws ToolInputError
Refused(tool, input, ord) ==
  Locals("settled", tool, input, ord, 0, <<>>, rejectInput(tool).outcome)

\* withToolLogging and runOrThrow on the run r of the effect of st
loggedRun(st, r) ==
  CASE st.call.tool = "listFiles" -> listFilesLogged(st.cap, r)
    [] st.call.tool = "searchText" ->
         searchTextLogged(st.call.input.query.s, st.cap, r)
    [] st.call.tool = "readFile" -> readFileLogged(st.call.input.path.s, st.cap, r)

\* The end of an invocation: the terminal event, then the settling
finishWith(st, done) ==
  [st EXCEPT !.pc = "settled", !.outcome = done.outcome,
             !.events = Append(@, done.events[2])]

succeedWith(st, value) == finishWith(st, loggedRun(st, Succeed(value, st.ops)))
failWith(st, err) == finishWith(st, loggedRun(st, Fail(err, st.ops)))

\* The invocation has made a file-system call
Did(st, op, path) == [st EXCEPT !.ops = Append(@, FsOp(op, path))]

\* matchesOf with one array matches for the tool set: an invocation finds in
\* it what the others have pushed
matchesOfShared(ps, p) ==
  IF \E q \in Procs \ {p} : ps[q].pc # "idle"
    THEN ps[CHOOSE q \in Procs \ {p} : ps[q].pc # "idle"].matches \o ps[p].matches
  ELSE ps[p].matches

\* The array matches of searchTextEffect: one for every invocation
matchesOf(ps, p) == ps[p].matches

\* The outer loop of searchTextEffect up to its next read, or to its end
RECURSIVE searchOn(_, _)
searchNext(root, st, resolved) ==
  IF ~resolved.ok THEN failWith(st, resolved.err)
  ELSE [st EXCEPT !.pc = "search", !.resolved = resolved.value]

searchOn(root, st) ==
  IF st.i > Len(st.listed) \/ Len(st.matches) >= st.cap
    THEN succeedWith(st, [root |-> root, query |-> st.call.input.query.s,
                          matches |-> st.matches])
  ELSE IF isBinaryPath(st.listed[st.i]) THEN searchOn(root, [st EXCEPT !.i = @ + 1])
  ELSE searchNext(root, st, resolveInsideRoot("searchText", root, st.listed[st.i]))

searchScannedOn(root, st, scanned) ==
  searchOn(root, [st EXCEPT !.matches = scanned.matches, !.ops = scanned.ops,
                            !.i = @ + 1])

\* searchTextEffect from the completion of the read of a file on
searchReadDone(root, st, matches, file) ==
  IF ~file.ok THEN failWith(Did(st, "readFile", st.resolved.abs), file.err)
  ELSE searchScannedOn(root, st,
                       scanLines(SplitLines(file.value.content), 1, st.listed[st.i],
                                 st.call.input.query.s, st.cap, matches,
                                 Append(st.ops, FsOp("readFile", st.resolved.abs))))

Top(st) == st.stack[Len(st.stack)]

\* The loop of the innermost walkDir goes to its next entry
advance(st) == [st EXCEPT !.stack[Len(st.stack)].i = @ + 1]

\* files.push(rel) in the innermost walkDir
pushFile(st, rel) == [st EXCEPT !.stack[Len(st.stack)].files = Append(@, rel)]

\* The innermost walkDir returns its files: files.push(...sub) in the one
\* that called it
returnSub(st) ==
  [st EXCEPT !.stack =
     Append(SubSeq(st.stack, 1, Len(st.stack) - 2),
            [st.stack[Len(st.stack) - 1] EXCEPT !.files = @ \o Top(st).files])]

\* walked that filters the binary extensions out before it caps the listing
walkedFilterFirst(root, st, all) ==
  IF st.call.tool = "listFiles"
    THEN succeedWith(st, [root |-> root, files |-> listedFiles(all, st.cap)])
  ELSE searchOn(root, [st EXCEPT !.stack = <<>>, !.i = 1,
                                 !.listed =
                                   SliceTo(SelectSeq(SortStrings(filterAllowed(all)),
                                                     LAMBDA rel : ~isBinaryPath(rel)),
                                           DEFAULT_MAX_FILES)])

\* The walk is over: listFilesEffect filters, sorts and caps, and
\* searchTextEffect goes on to its files
walked(root, st, all) ==
  IF st.call.tool = "listFiles"
    THEN succeedWith(st, [root |-> root, files |-> listedFiles(all, st.cap)])
  ELSE searchOn(root, [st EXCEPT !.stack = <<>>, !.i = 1,
                                 !.listed = listedFiles(all, DEFAULT_MAX_FILES)])

\* walkDir up to its next readdir, or to the end of the walk
RECURSIVE walkOn(_, _)
walkEntry(root, st, dir, entry) ==
  IF entry.name \in SKIP_DIRS THEN walkOn(root, advance(st))
  ELSE IF entry.kind = "link" THEN walkOn(root, advance(st))
  ELSE IF entry.kind = "dir"
    THEN [st EXCEPT !.stack = Append(@, Frame(PathJoin(dir, entry.name)))]
  ELSE IF entry.kind = "file"
    THEN walkOn(root, advance(pushFile(st, PathRelative(root,
                                                        PathJoin(dir, entry.name)))))
  ELSE walkOn(root, advance(st))

walkOn(root, st) ==
  IF Top(st).i <= Len(Top(st).entries)
    THEN walkEntry(root, st, Top(st).dir, Top(st).entries[Top(st).i])
  ELSE IF Len(st.stack) = 1 THEN walked(root, st, Top(st).files)
  ELSE walkOn(root, advance(returnSub(st)))

\* walkDir from the completion of its readdir on
walkReadDone(root, st, rd) ==
  IF ~rd.ok
    THEN failWith(Did(st, "readdir", Top(st).dir), ToolFsError("listFiles", rd.code))
  ELSE walkOn(root, Did([st EXCEPT !.stack[Len(st.stack)].entries = rd.entries,
                                   !.stack[Len(st.stack)].i = 1],
                        "readdir", Top(st).dir))

\* ensureRealpathInsideRoot from the real path of the root on
rootRealDone(root, st, rootReal) ==
  IF ~rootReal.ok
    THEN failWith(Did(st, "realpath", root),
                  containmentResult("readFile", root, st.resolved.abs,
                                    st.resolved.rel, rootReal, rootReal).err)
  ELSE Did([st EXCEPT !.pc = "realpathTarget", !.rootReal = rootReal],
           "realpath", root)

\* ensureRealpathInsideRoot from the real path of the target on
targetRealDone(st, inside) ==
  IF ~inside.ok THEN failWith(Did(st, "realpath", st.resolved.abs), inside.err)
  ELSE Did([st EXCEPT !.pc = "read"], "realpath", st.resolved.abs)

\* readFileEffect from the completion of the read on
readDone(root, st, file) ==
  IF ~file.ok THEN failWith(Did(st, "readFile", st.resolved.abs), file.err)
  ELSE succeedWith(Did(st, "readFile", st.resolved.abs),
                   [root |-> root, path |-> st.resolved.rel,
                    content |-> file.value.content,
                    truncated |-> file.value.truncated])

\* readFileEffect up to its first file-system call
readStarted(st, resolved) ==
  IF ~resolved.ok THEN failWith(st, resolved.err)
  ELSE [st EXCEPT !.pc = "realpathRoot", !.resolved = resolved.value]

\* The walk starts in the root
walkStarted(root, st) == [st EXCEPT !.stack = <<Frame(root)>>]

\* An execute from its call to its first file-system call
called(root, tool, input, ord) ==
  CASE tool = "listFiles" ->
         walkStarted(root,
           Started("walk", tool, input, ord,
                   effectiveCap(Field(input, "max"), DEFAULT_MAX_FILES),
                   [max |-> effectiveCap(Field(input, "max"), DEFAULT_MAX_FILES)]))
    [] tool = "searchText" ->
         IF isBlankOrNotString(Field(input, "query")) THEN Refused(tool, input, ord)
         ELSE walkStarted(root,
                Started("walk", tool, input, ord,
                        effectiveCap(Field(input, "maxMatches"), DEFAULT_MAX_MATCHES),
                        [query |-> Field(input, "query").s,
                         maxMatches |-> effectiveCap(Field(input, "maxMatches"),
                                                     DEFAULT_MAX_MATCHES)]))
    [] tool = "readFile" ->
         IF isBlankOrNotString(Field(input, "path")) THEN Refused(tool, input, ord)
         ELSE readStarted(
                Started("started", tool, input, ord,
                        effectiveCap(Field(input, "maxBytes"), DEFAULT_MAX_FILE_BYTES),
                        [path |-> Field(input, "path").s,
                         maxBytes |-> effectiveCap(Field(input, "maxBytes"),
                                                   DEFAULT_MAX_FILE_BYTES)]),
                resolveInsideRoot("readFile", root, Field(input, "path").s))

\* An invocation from the completion of the file-system call it waits for
\* to its next file-system call, or to its end
resumed(f, root, ps, p) ==
  CASE ps[p].pc = "walk" ->
         walkReadDone(root, ps[p], FsReaddir(f, Top(ps[p]).dir, ps[p].call.ord))
    [] ps[p].pc = "search" ->
         searchReadDone(root, ps[p], matchesOf(ps, p),
                        safeReadTextFile(f, "searchText", ps[p].resolved.abs,
                                         SEARCH_MAX_FILE_BYTES))
    [] ps[p].pc = "realpathRoot" -> rootRealDone(root, ps[p], Realpath(f, root))
    [] ps[p].pc = "realpathTarget" ->
         targetRealDone(ps[p],
                        containmentResult("readFile", root, ps[p].resolved.abs,
                                          ps[p].resolved.rel, ps[p].rootReal,
                                          Realpath(f, ps[p].resolved.abs)))
    [] ps[p].pc = "read" ->
         readDone(root, ps[p],
                  safeReadTextFile(f, "readFile", ps[p].resolved.abs, ps[p].cap))

(***************************************************************************)
(* The state machine                                                       *)
(***************************************************************************)

VARIABLES
  fs,        \* the directory tree (the tools never change it)
  rootAbs,   \* the root of the tool set, fixed by makeRepoTools
  pc,        \* "idle", or "settled" when the promise of an execute has settled
  call,      \* the settled invocation: tool, raw input, enumeration order
  outcome,   \* what it returned or threw
  fsOps,     \* the file-system calls it made, in order
  events,    \* the events it emitted, in order
  steps,     \* its file-system calls, line scans and emissions, in order
  env,       \* process.env, as far as readAppConfig reads it
  appConfig, \* whether the configuration was read, and what reading it gave
  client,    \* the chatCompletions call of the OpenRouter client
  procs,     \* the locals of the invocations that run concurrently
  log,       \* the events that the event log of the tool set was given
  mock,      \* the client of createMockClient: its counter and its calls
  smart,     \* the client of createSmartMockClient and the conversations with it
  stream     \* the call of doStream and the stream it returned

toolVars == <<fs, rootAbs, pc, call, outcome, fsOps, events, steps>>
clientVars == <<env, appConfig, client>>
concVars == <<procs, log>>
adapterVars == <<mock, smart, stream>>
vars ==
  <<fs, rootAbs, pc, call, outcome, fsOps, events, steps, env, appConfig, client,
    procs, log, mock, smart, stream>>

\* makeRepoTools that keeps the directory as it was given
makeRepoToolsUnresolved(rootDir) == rootDir

\* Path.resolve(rootDir), the process working in "/"
makeRepoTools(rootDir) == PathResolve("/", rootDir)

EnvKeys ==
  {"GROK_KEY", "GROK_MODEL", "OPENROUTER_BASE_URL", "LOG_LEVEL", "DEMO_TARGET_DIR",
   "DEMO_QUESTION"}

\* No variable is set
EmptyEnv == [key \in EnvKeys |-> Undefined]

NotRead == [read |-> FALSE]
ClientIdle == [pc |-> "idle"]

\* The process has neither read its configuration nor built the client
ClientAtRest ==
  /\ env = EmptyEnv
  /\ appConfig = NotRead
  /\ client = ClientIdle

\* No invocation is in flight
ConcAtRest ==
  /\ procs = [p \in Procs |-> IdleProc]
  /\ log = <<>>

\* No mock client is made and doStream is not called
NotMade == [made |-> FALSE]
StreamIdle == [pc |-> "idle"]

AdapterAtRest ==
  /\ mock = NotMade
  /\ smart = NotMade
  /\ stream = StreamIdle

Init ==
  /\ fs \in Trees
  /\ \E rootDir \in RootDirs : rootAbs = makeRepoTools(rootDir)
  /\ pc = "idle"
  /\ call = NoCall
  /\ outcome = NoOutcome
  /\ fsOps = <<>>
  /\ events = <<>>
  /\ steps = <<>>
  /\ ClientAtRest
  /\ ConcAtRest
  /\ AdapterAtRest

\* One execute from its call to the settling of its promise
Invoke(tool, input, ord, r) ==
  /\ pc = "idle"
  /\ pc' = "settled"
  /\ call' = [tool |-> tool, input |-> input, ord |-> ord]
  /\ outcome' = r.outcome
  /\ fsOps' = r.ops
  /\ events' = r.events
  /\ steps' = r.steps
  /\ UNCHANGED <<fs, rootAbs>>
  /\ UNCHANGED clientVars
  /\ UNCHANGED concVars
  /\ UNCHANGED adapterVars

ListFiles ==
  \E input \in ListInputs, ord \in DirOrders :
    Invoke("listFiles", input, ord, listFilesExecute(fs, rootAbs, input, ord))

SearchText ==
  \E input \in SearchInputs, ord \in DirOrders :
    Invoke("searchText", input, ord, searchTextExecute(fs, rootAbs, input, ord))

ReadFile ==
  \E input \in ReadInputs :
    Invoke("readFile", input, "asc", readFileExecute(fs, rootAbs, input))

\* The caller takes the result or the failure; the tool set keeps nothing of
\* a finished invocation (its closure holds the event log and rootAbs only).
Return ==
  /\ pc = "settled"
  /\ pc' = "idle"
  /\ call' = NoCall
  /\ outcome' = NoOutcome
  /\ fsOps' = <<>>
  /\ events' = <<>>
  /\ steps' = <<>>
  /\ UNCHANGED <<fs, rootAbs>>
  /\ UNCHANGED clientVars
  /\ UNCHANGED concVars
  /\ UNCHANGED adapterVars

Next == ListFiles \/ SearchText \/ ReadFile \/ Return

Spec == Init /\ [][Next]_vars

(***************************************************************************)
(* The state machine of the configuration and the client: the process     *)
(* reads its configuration once, builds the client from it and calls      *)
(* chatCompletions; every attempt of a call settles as its fetch does.    *)
(***************************************************************************)

EnvOf(grokKey, grokModel, baseUrl, logLevel) ==
  [EmptyEnv EXCEPT !["GROK_KEY"] = grokKey, !["GROK_MODEL"] = grokModel,
                   !["OPENROUTER_BASE_URL"] = baseUrl, !["LOG_LEVEL"] = logLevel]

Envs ==
  {EnvOf(k, m, b, l) :
     k \in {Undefined, JString(""), JString(" "), JString("k"), JString(" k ")},
     m \in {Undefined, JString(""), JString(" \n"), JString("m"), JString("m ")},
     b \in {Undefined, JString(" http://h/v1// ")},
     l \in {Undefined, JString("WARN")}}

Fetches ==
  {Response(200, ""), Response(200, "{}"), Response(200, "{\"id\":\"r\"}"),
   Response(200, "<"), Response(200, " "), Response(204, "")}
  \cup {Response(s, "e") : s \in {304, 400, 404, 408, 409, 425, 429, 499, 500, 503}}
  \cup {Rejected(w) : w \in {"AbortError", "TypeError", "timeout"}}

\* The tools are not in use
ToolsAtRest ==
  /\ fs = BaseTree
  /\ rootAbs = makeRepoTools("/w")
  /\ pc = "idle"
  /\ call = NoCall
  /\ outcome = NoOutcome
  /\ fsOps = <<>>
  /\ events = <<>>
  /\ steps = <<>>

ClientInit ==
  /\ env \in Envs
  /\ appConfig = NotRead
  /\ client = ClientIdle
  /\ ToolsAtRest
  /\ ConcAtRest
  /\ AdapterAtRest

\* The layer AppConfigLive runs readAppConfig
ReadAppConfig ==
  /\ ~appConfig.read
  /\ appConfig' = [read |-> TRUE, result |-> readAppConfig(env)]
  /\ UNCHANGED <<env, client>>
  /\ UNCHANGED toolVars
  /\ UNCHANGED concVars
  /\ UNCHANGED adapterVars

\* buildOpenRouterClient and the start of chatCompletions: the client is
\* built from a configuration, so there is none without one.
startCall(cfg) ==
  [pc |-> "attempt",
   url |-> cfg.baseUrl \o "/chat/completions",
   authorization |-> "Bearer " \o cfg.grokKey,
   fetched |-> <<>>,
   delays |-> <<>>]

ChatCompletions ==
  /\ appConfig.read
  /\ appConfig.result.ok
  /\ client.pc = "idle"
  /\ client' = startCall(appConfig.result.value)
  /\ UNCHANGED <<env, appConfig>>
  /\ UNCHANGED toolVars
  /\ UNCHANGED concVars
  /\ UNCHANGED adapterVars

\* Effect.retry(schedule) after an attempt r whose fetch settled as fetched:
\* a success ends the call, a failure on which the schedule recurs is
\* followed by another attempt after the delay, any other failure ends it.
retry(c, fetched, r) ==
  IF r.ok
    THEN [pc |-> "done", url |-> c.url, authorization |-> c.authorization,
          fetched |-> Append(c.fetched, fetched), delays |-> c.delays, result |-> r]
  ELSE IF schedule(r.err, Len(c.delays))
    THEN [pc |-> "attempt", url |-> c.url, authorization |-> c.authorization,
          fetched |-> Append(c.fetched, fetched),
          delays |-> Append(c.delays, exponential(baseMs, Len(c.delays)))]
  ELSE [pc |-> "done", url |-> c.url, authorization |-> c.authorization,
        fetched |-> Append(c.fetched, fetched), delays |-> c.delays, result |-> r]

\* One attempt of chatCompletions, from its fetch to the decision to retry
Attempt ==
  /\ client.pc = "attempt"
  /\ \E fetched \in Fetches : client' = retry(client, fetched, request(fetched))
  /\ UNCHANGED <<env, appConfig>>
  /\ UNCHANGED toolVars
  /\ UNCHANGED concVars
  /\ UNCHANGED adapterVars

\* The caller takes the response or the error of the call
Settle ==
  /\ client.pc = "done"
  /\ client' = ClientIdle
  /\ UNCHANGED <<env, appConfig>>
  /\ UNCHANGED toolVars
  /\ UNCHANGED concVars
  /\ UNCHANGED adapterVars

ClientNext == ReadAppConfig \/ ChatCompletions \/ Attempt \/ Settle

ClientSpec == ClientInit /\ [][ClientNext]_vars

\* The client with its scheduling: the fetch of an attempt settles (a
\* response, a rejection, or the abort of fetchWithTimeout when the timeout
\* fires) and the delay of the schedule elapses, so a pending attempt is
\* made in the end.
ClientFairSpec == ClientSpec /\ WF_vars(Attempt)

(***************************************************************************)
(* The state machine of concurrent invocations                             *)
(***************************************************************************)

ConcTrees == {BaseTree, TreeOf({"locked"}), TreeOf({"linksOut"}), TreeOf({"dotdot"})}

ConcCalls ==
  {[tool |-> "listFiles", input |-> RawInput("object", Undefined, Undefined, c,
                                             Undefined, Undefined), ord |-> o] :
     c \in {Undefined, JInt(2)}, o \in DirOrders}
  \cup {[tool |-> "searchText", input |-> RawInput("object", Undefined, q, Undefined,
                                                    c, Undefined), ord |-> o] :
          q \in {JString("foo"), JString("bar"), JString(" ")},
          c \in {Undefined, JInt(1)}, o \in {"asc"}}
  \cup {[tool |-> "readFile", input |-> RawInput("object", JString(path), Undefined,
                                                  Undefined, Undefined, c), ord |-> "asc"] :
          path \in {"a.txt", "../etc/passwd", "nope.txt", "leak.txt", "n.txt"},
          c \in {Undefined, JInt(4)}}

ConcInit ==
  /\ fs \in ConcTrees
  /\ rootAbs = makeRepoTools("/w")
  /\ pc = "idle"
  /\ call = NoCall
  /\ outcome = NoOutcome
  /\ fsOps = <<>>
  /\ events = <<>>
  /\ steps = <<>>
  /\ ClientAtRest
  /\ ConcAtRest
  /\ AdapterAtRest

\* An execute is called: it runs to its first file-system call
Call(p) ==
  /\ procs[p].pc = "idle"
  /\ \E c \in ConcCalls :
       procs' = [procs EXCEPT ![p] = called(rootAbs, c.tool, c.input, c.ord)]
  /\ log' = log \o procs'[p].events
  /\ UNCHANGED toolVars
  /\ UNCHANGED clientVars
  /\ UNCHANGED adapterVars

\* A file-system call completes: the invocation that waits for it runs to
\* its next file-system call, or to its end
Step(p) ==
  /\ procs[p].pc \notin {"idle", "settled"}
  /\ procs' = [procs EXCEPT ![p] = resumed(fs, rootAbs, procs, p)]
  /\ log' = log \o SubSeq(procs'[p].events, Len(procs[p].events) + 1,
                          Len(procs'[p].events))
  /\ UNCHANGED toolVars
  /\ UNCHANGED clientVars
  /\ UNCHANGED adapterVars

\* The caller, who awaited the invocations together, takes what they gave,
\* and the event log is read
TakeAll ==
  /\ \A p \in Procs : procs[p].pc \in {"idle", "settled"}
  /\ \E p \in Procs : procs[p].pc = "settled"
  /\ procs' = [p \in Procs |-> IdleProc]
  /\ log' = <<>>
  /\ UNCHANGED toolVars
  /\ UNCHANGED clientVars
  /\ UNCHANGED adapterVars

ConcNext == (\E p \in Procs : Call(p) \/ Step(p)) \/ TakeAll

ConcSpec == ConcInit /\ [][ConcNext]_vars

(***************************************************************************)
(* Properties of the tools                                                 *)
(***************************************************************************)

\* A tool invocation has settled
Settled(tool) == pc = "settled" /\ call.tool = tool

HasReturned == outcome.status = "returned"

ThrewTag(tag) == outcome.status = "threw" /\ outcome.err.tag = tag

DeniedFor(reason) == ThrewTag("ToolDeniedError") /\ outcome.err.reason = reason

\* The file-system calls of the settled invocation
OpsOf(op) == {fsOps[i].path : i \in {j \in 1..Len(fsOps) : fsOps[j].op = op}}

\* The segments of a relative path
SegsOf(rel) == FilterNonEmpty(Split(rel, "/"))

\* The invocation gave the string p in the required field
GaveString(name) == call.input.t = "object" /\ call.input[name].t = "string"

\* The root-relative path of what the user path p resolves to
RelOf(root, p) == PathRelative(root, PathResolve(root, p))

\* p resolves lexically outside the root: the relative path from the root to
\* resolve(root, p) starts with "..", has a ".." segment or is absolute
LexicallyOutside(root, p) ==
  LET rel == RelOf(root, p)
      segs == SegsOf(rel)
  IN \/ (Len(rel) >= 2 /\ SubSeq(rel, 1, 2) = "..")
     \/ \E i \in 1..Len(segs) : segs[i] = ".."
     \/ (Len(rel) >= 1 /\ SubSeq(rel, 1, 1) = "/")

\* The deny list of the Path Policy on a root-relative path
PolicyDenies(rel) ==
  LET segs == SegsOf(rel)
      base == IF Len(segs) > 0 THEN segs[Len(segs)] ELSE rel
      n == Len(base)
  IN \/ \E i \in 1..Len(segs) : segs[i] \in {".git", "node_modules", "output"}
     \/ base \in {".env", "id_rsa"}
     \/ (n >= 5 /\ SubSeq(base, 1, 5) = ".env.")
     \/ (n >= 7 /\ SubSeq(base, 1, 7) = "id_rsa.")
     \/ (n >= 4 /\ SubSeq(base, n - 3, n) \in {".pem", ".key"})

\* The real path of the root, and what lies at a root-relative path of it
RootReal == Realpath(fs, rootAbs)

IsPrefix(a, b) == Len(a) <= Len(b) /\ SubSeq(b, 1, Len(a)) = a

\* C1: a readFile of a path that resolves lexically outside the root throws
\* ToolDeniedError with the reason "Path escapes target root" and returns no
\* content; the resolution that searchText does of such a path fails in the
\* same way (whatever the tool set has done before), and searchText reads no
\* such path and reports no match in one.
C1_LexicalEscapeDenied ==
  /\ (Settled("readFile") /\ GaveString("path")
      /\ LexicallyOutside(rootAbs, call.input.path.s))
       => DeniedFor("Path escapes target root")
  /\ Settled("searchText") =>
       /\ \A p \in OpsOf("readFile") \cup OpsOf("realpath") :
            ~LexicallyOutside(rootAbs, p)
       /\ HasReturned =>
            \A i \in 1..Len(outcome.value.matches) :
              ~LexicallyOutside(rootAbs, outcome.value.matches[i].path)
  /\ pc = "idle" =>
       \A p \in ReadPaths :
         LexicallyOutside(rootAbs, p) =>
           LET r == resolveInsideRoot("searchText", rootAbs, p)
           IN ~r.ok /\ r.err.tag = "ToolDeniedError"
              /\ r.err.reason = "Path escapes target root"

\* C1 happens: readFile of ../../etc/passwd was denied as an escape
C1_Witness ==
  /\ Settled("readFile") /\ GaveString("path")
  /\ call.input.path.s = "../../etc/passwd"
  /\ DeniedFor("Path escapes target root")

\* C1 happens in searchText too: a file of the root whose name starts with
\* ".." stops the search with the same denial
C1_WitnessSearch ==
  /\ Settled("searchText")
  /\ DeniedFor("Path escapes target root")

\* The conditions of C2: the path is lexically inside the root, it and the
\* root have real paths, and the real path of the path is outside the real
\* path of the root
RealPathOutside(p) ==
  LET target == Realpath(fs, PathResolve(rootAbs, p))
  IN /\ ~LexicallyOutside(rootAbs, p)
     /\ RootReal.ok /\ target.ok
     /\ ~IsPrefix(AbsSegs(RootReal.path), AbsSegs(target.path))

\* C2 as stated: a readFile of an existing path that is lexically inside the
\* root and whose real path is outside the real path of the root throws
\* ToolDeniedError with the reason "Path resolves outside target root".
C2_AsStated ==
  (Settled("readFile") /\ GaveString("path") /\ RealPathOutside(call.input.path.s))
    => DeniedFor("Path resolves outside target root")

\* C2, amended: a readFile of an existing path that is lexically inside the
\* root, is not denied by the Path Policy and has its real path outside the
\* real path of the root throws ToolDeniedError with the reason "Path
\* resolves outside target root"; with or without the policy, such a path
\* yields a ToolDeniedError and no content.
C2_RealpathEscapeDenied ==
  (Settled("readFile") /\ GaveString("path") /\ RealPathOutside(call.input.path.s))
    => /\ ThrewTag("ToolDeniedError")
       /\ ~PolicyDenies(RelOf(rootAbs, call.input.path.s))
            => DeniedFor("Path resolves outside target root")

\* C2 happens: leak.txt, a link to /etc/passwd, was denied
C2_Witness ==
  /\ Settled("readFile") /\ GaveString("path")
  /\ call.input.path.s \in {"leak.txt", "escape/passwd"}
  /\ RealPathOutside(call.input.path.s)
  /\ DeniedFor("Path resolves outside target root")

\* A listed path goes through a symbolic link: it or a directory above it,
\* below the root, is one
ThroughLink(rel) ==
  \E k \in 1..Len(SegsOf(rel)) :
    LET p == RootReal.path \o "/" \o Join(SubSeq(SegsOf(rel), 1, k), "/")
    IN p \in DOMAIN fs /\ fs[p].kind = "link"

\* The root-relative paths of the regular files of the tree of the root that
\* are reached through directories only, none of them pruned, and that the
\* Path Policy allows
OrdinaryFiles ==
  LET root == RootReal.path
      rootSegs == AbsSegs(root)
  IN {PathRelative(root, p) :
        p \in {q \in DOMAIN fs :
                 /\ fs[q].kind = "file"
                 /\ IsPrefix(rootSegs, AbsSegs(q))
                 /\ ~PolicyDenies(PathRelative(root, q))}}

\* The files a settled listFiles returned, and the cap it worked with
ListedFiles == outcome.value.files
ListedSet == {ListedFiles[i] : i \in 1..Len(ListedFiles)}

\* C3: listFiles returns no path that is a symbolic link or lies beneath a
\* symbolic link to a directory, and the ordinary files of the tree are
\* listed all the same (all of them when the cap is not reached).
C3_NoSymlinkListed ==
  (Settled("listFiles") /\ HasReturned) =>
    LET ordinary == OrdinaryFiles
    IN /\ \A rel \in ListedSet : ~ThroughLink(rel)
       /\ ListedSet \subseteq ordinary
       /\ Len(ListedFiles) < Cardinality(ordinary) =>
            Len(ListedFiles) = effectiveCap(Field(call.input, "max"), DEFAULT_MAX_FILES)
       /\ Len(ListedFiles) >= Cardinality(ordinary) => ListedSet = ordinary

\* C3 happens: a tree with a link to a file and a link to a directory was
\* listed, with its ordinary files and without the links
C3_Witness ==
  /\ Settled("listFiles") /\ HasReturned
  /\ "/w/leak.txt" \in DOMAIN fs /\ "/w/escape" \in DOMAIN fs
  /\ "a.txt" \in ListedSet /\ "d/c.txt" \in ListedSet
  /\ "leak.txt" \notin ListedSet /\ "escape/passwd" \notin ListedSet


\* C4: readFile of a path whose root-relative path has a segment .git,
\* node_modules or output, or whose basename is .env, starts with ".env.",
\* is id_rsa, starts with "id_rsa." or ends with .pem or .key, throws
\* ToolDeniedError, and no such path is among the files that listFiles
\* returns.
C4_DenylistBlocks ==
  /\ (Settled("readFile") /\ GaveString("path")
      /\ PolicyDenies(RelOf(rootAbs, call.input.path.s)))
       => ThrewTag("ToolDeniedError")
  /\ (Settled("listFiles") /\ HasReturned) =>
       \A rel \in ListedSet : ~PolicyDenies(rel)

\* C4 happens: .env.local is in the tree and readFile of it was denied
C4_Witness ==
  /\ Settled("readFile") /\ GaveString("path")
  /\ call.input.path.s = ".env.local"
  /\ "/w/.env.local" \in DOMAIN fs
  /\ ThrewTag("ToolDeniedError")

\* C4 happens in listFiles: a tree that holds secrets was listed
C4_WitnessList ==
  /\ Settled("listFiles") /\ HasReturned
  /\ "/w/id_rsa.pub" \in DOMAIN fs
  /\ "a.txt" \in ListedSet

\* The roots that C5 resolves against: the root of the tool set, a directory
\* below it and the root of the file system
ResolverRoots == {rootAbs, "/w/d", "/"}

\* C5: when resolveInsideRoot succeeds with (abs, rel), rel has no ".."
\* segment, is not absolute and is not denied by the Path Policy, and abs is
\* the location of rel below the root; a readFile that returns names that
\* rel as its path.
C5_ResolvedInsideRoot ==
  (Settled("readFile") /\ GaveString("path")) =>
    /\ \A root \in ResolverRoots :
         LET r == resolveInsideRoot("readFile", root, call.input.path.s)
         IN r.ok =>
              /\ \A i \in 1..Len(SegsOf(r.value.rel)) : SegsOf(r.value.rel)[i] # ".."
              /\ ~(Len(r.value.rel) >= 1 /\ SubSeq(r.value.rel, 1, 1) = "/")
              /\ ~PolicyDenies(r.value.rel)
              /\ AbsSegs(r.value.abs) = AbsSegs(root) \o SegsOf(r.value.rel)
    /\ HasReturned =>
         LET r == resolveInsideRoot("readFile", rootAbs, call.input.path.s)
         IN r.ok /\ outcome.value.path = r.value.rel

\* C5 happens: d/../a.txt resolved to a.txt below the root and was read
C5_Witness ==
  /\ Settled("readFile") /\ GaveString("path")
  /\ call.input.path.s = "d/../a.txt"
  /\ HasReturned /\ outcome.value.path = "a.txt"
  /\ resolveInsideRoot("readFile", rootAbs, "d/../a.txt").ok

\* The bytes of the file that a settled readFile read, and its effective cap
BytesRead == fs[Realpath(fs, PathResolve(rootAbs, call.input.path.s)).path].bytes
CapOfRead == effectiveCap(Field(call.input, "maxBytes"), DEFAULT_MAX_FILE_BYTES)

\* C6: a readFile that returns, of a file of S bytes with effective cap M,
\* has truncated = TRUE exactly when S > M, and its content is the decoding
\* of the first M bytes when truncated and of the whole file otherwise; the
\* 20 bytes 0123456789ABCDEFGHIJ read with maxBytes 10 give 0123456789,
\* truncated.
C6_TruncatedIffOverCap ==
  (Settled("readFile") /\ HasReturned) =>
    /\ outcome.value.truncated = (Len(BytesRead) > CapOfRead)
    /\ outcome.value.content =
         Utf8Decode(IF Len(BytesRead) > CapOfRead THEN SubSeq(BytesRead, 1, CapOfRead)
                                                  ELSE BytesRead)
    /\ (BytesRead = AsciiBytes("0123456789ABCDEFGHIJ") /\ CapOfRead = 10) =>
         outcome.value.content = "0123456789" /\ outcome.value.truncated
    /\ (BytesRead = AsciiBytes("0123456789ABCDEFGHIJ") /\ CapOfRead = 20) =>
         outcome.value.content = "0123456789ABCDEFGHIJ" /\ ~outcome.value.truncated

\* C6 happens: a.txt was read with maxBytes 10
C6_Witness ==
  /\ Settled("readFile") /\ HasReturned
  /\ call.input.path.s = "a.txt" /\ call.input.maxBytes = JInt(10)
  /\ outcome.value.content = "0123456789" /\ outcome.value.truncated

\* C6 happens at the boundary: a.txt was read whole with maxBytes 20
C6_WitnessBoundary ==
  /\ Settled("readFile") /\ HasReturned
  /\ call.input.path.s = "a.txt" /\ call.input.maxBytes = JInt(20)
  /\ ~outcome.value.truncated


\* A required field as the caller gave it (absent when the input is no
\* object), and what makes it missing, non-string or blank after trimming
GivenField(name) == IF call.input.t = "object" THEN call.input[name] ELSE Undefined

InvalidRequired(v) ==
  \/ v.t # "string"
  \/ \A i \in 1..Len(v.s) : SubSeq(v.s, i, i) \in {" ", "\n", "\r"}

\* C7: searchText with a missing, non-string or blank query, and readFile
\* with a missing, non-string or blank path (an input that is no object
\* included), throw ToolInputError and make no file-system call.
C7_InvalidInputRejected ==
  (\/ Settled("searchText") /\ InvalidRequired(GivenField("query"))
   \/ Settled("readFile") /\ InvalidRequired(GivenField("path")))
    => ThrewTag("ToolInputError") /\ fsOps = <<>>

\* C7 happens: searchText with a query of blanks was rejected
C7_Witness ==
  /\ Settled("searchText")
  /\ GivenField("query") = JString(" \n")
  /\ ThrewTag("ToolInputError") /\ fsOps = <<>>

\* C7 happens for readFile with an input that is no object
C7_WitnessNonObject ==
  /\ Settled("readFile") /\ call.input.t = "null"
  /\ ThrewTag("ToolInputError") /\ fsOps = <<>>

\* An optional cap that is absent or invalid: no number, not finite, or <= 0
InvalidCap(v) == v.t # "number" \/ v.s # "finite" \/ v.h <= 0

\* What the settled invocation did, as the effects report it
Settlement == [outcome |-> outcome, ops |-> fsOps, events |-> events, steps |-> steps]

\* C8: an absent or invalid cap is never a reason to reject the input: with
\* it listFiles does what it does with max = 400 (whatever the input,
\* objects or not), readFile what it does with maxBytes = 20000 and
\* searchText what it does with maxMatches = 50.
C8_InvalidCapIsDefault ==
  /\ (Settled("listFiles") /\ InvalidCap(GivenField("max"))) =>
       /\ ~ThrewTag("ToolInputError")
       /\ Settlement = listFilesCapped(fs, rootAbs, call.ord, 400)
  /\ (Settled("readFile") /\ ~InvalidRequired(GivenField("path"))
      /\ InvalidCap(GivenField("maxBytes"))) =>
       /\ ~ThrewTag("ToolInputError")
       /\ Settlement = readFileCapped(fs, rootAbs, call.input.path.s, 20000)
  /\ (Settled("searchText") /\ ~InvalidRequired(GivenField("query"))
      /\ InvalidCap(GivenField("maxMatches"))) =>
       /\ ~ThrewTag("ToolInputError")
       /\ Settlement = searchTextCapped(fs, rootAbs, call.ord, call.input.query.s, 50)

\* C8 happens: listFiles with max = 0 listed the tree under the cap 400
C8_Witness ==
  /\ Settled("listFiles") /\ GivenField("max") = JInt(0)
  /\ HasReturned /\ Len(ListedFiles) >= 3
  /\ events[1].data.max = 400

\* C8 happens for an input that is no object
C8_WitnessNonObject ==
  /\ Settled("listFiles") /\ call.input.t = "string"
  /\ HasReturned /\ Len(ListedFiles) >= 3

\* The effective cap of a settled listFiles
CapOfList == effectiveCap(Field(call.input, "max"), DEFAULT_MAX_FILES)

\* C9: the files that listFiles returns are the first max entries of the
\* sorted list of the ordinary files of the tree (no symbolic link, nothing
\* pruned, nothing the Path Policy denies), whatever the order in which the
\* directories enumerate their entries: sorting comes before the cap.
C9_SortedThenCapped ==
  (Settled("listFiles") /\ HasReturned) =>
    /\ \A i, j \in 1..Len(ListedFiles) : i < j => StrLess(ListedFiles[i], ListedFiles[j])
    /\ LET ordinary == OrdinaryFiles
       IN /\ ListedSet \subseteq ordinary
          /\ Len(ListedFiles) = Min(CapOfList, Cardinality(ordinary))
          /\ \A x \in ordinary \ ListedSet : \A y \in ListedSet : StrLess(y, x)
    /\ \A ord \in DirOrders :
         listFilesExecute(fs, rootAbs, call.input, ord).outcome = outcome

\* C9 happens: with max = 2 and the entries enumerated in descending order,
\* the two first files of the sorted list came back
C9_Witness ==
  /\ Settled("listFiles") /\ HasReturned
  /\ call.ord = "desc" /\ GivenField("max") = JInt(2)
  /\ Cardinality(OrdinaryFiles) > 2
  /\ ListedFiles = <<"a.txt", "b.txt">>

\* The matches of a settled searchText, and the lines of a file of the root
FoundMatches == outcome.value.matches

LinesOf(rel) == SplitLines(Utf8Decode(fs[RootReal.path \o "/" \o rel].bytes))

Contains(line, q) == \E i \in 1..(Len(line) - Len(q) + 1) : SubSeq(line, i, i + Len(q) - 1) = q

\* C10: the matches of searchText come ordered by file path, in sorted
\* order, and by line number within a file; the line of a match is the
\* 1-based number of a line of the file, split on \r?\n, that contains the
\* query as it is written (case-sensitive, literal), and the preview is the
\* first 200 characters of that line.
C10_MatchesOrderedAndNumbered ==
  (Settled("searchText") /\ HasReturned) =>
    /\ \A i, j \in 1..Len(FoundMatches) :
         i < j =>
           \/ StrLess(FoundMatches[i].path, FoundMatches[j].path)
           \/ /\ FoundMatches[i].path = FoundMatches[j].path
              /\ FoundMatches[i].line < FoundMatches[j].line
    /\ \A k \in 1..Len(FoundMatches) :
         LET m == FoundMatches[k]
         IN /\ m.line \in 1..Len(LinesOf(m.path))
            /\ Contains(LinesOf(m.path)[m.line], call.input.query.s)
            /\ m.preview = SubSeq(LinesOf(m.path)[m.line], 1,
                                  Min(200, Len(LinesOf(m.path)[m.line])))
            /\ m.path = "b.txt" =>
                 \/ m.line = 1 /\ m.preview = "foo"
                 \/ m.line = 2 /\ m.preview = "bar"
                 \/ m.line = 3 /\ m.preview = "foo bar"
            /\ m.path = "d/c.txt" => m.line \in {1, 3} /\ m.preview \in {"x", "foo"}

\* C10 happens: "foo" was found in b.txt, lines 1 and 3, then in d/c.txt,
\* line 3, in a tree enumerated in descending order
C10_Witness ==
  /\ Settled("searchText") /\ HasReturned /\ call.ord = "desc"
  /\ call.input.query = JString("foo")
  /\ Len(FoundMatches) >= 3
  /\ \E k \in 1..(Len(FoundMatches) - 2) :
       /\ FoundMatches[k] = [path |-> "b.txt", line |-> 1, preview |-> "foo"]
       /\ FoundMatches[k + 1] = [path |-> "b.txt", line |-> 3, preview |-> "foo bar"]
       /\ FoundMatches[k + 2] = [path |-> "d/c.txt", line |-> 3, preview |-> "foo"]

\* C10 happens for a line of more than 200 characters
C10_WitnessLongLine ==
  /\ Settled("searchText") /\ HasReturned
  /\ \E k \in 1..Len(FoundMatches) :
       /\ FoundMatches[k].path = "long.txt"
       /\ Len(FoundMatches[k].preview) = 200
       /\ Len(LinesOf("long.txt")[1]) > 200


\* The effective cap of a settled searchText and the query it was given
CapOfSearch == effectiveCap(Field(call.input, "maxMatches"), DEFAULT_MAX_MATCHES)

\* Every match there is in the tree for the query: a searchable file (an
\* ordinary file without a binary extension) and the number of a line of it
\* that contains the query
AllMatchKeys ==
  UNION {LET lines == LinesOf(rel)
         IN {[path |-> rel, line |-> n] :
               n \in {k \in 1..Len(lines) : Contains(lines[k], call.input.query.s)}} :
         rel \in {r \in OrdinaryFiles : ~isBinaryPath(r)}}

KeyBefore(a, b) ==
  StrLess(a.path, b.path) \/ (a.path = b.path /\ a.line < b.line)

FoundKeys ==
  {[path |-> FoundMatches[k].path, line |-> FoundMatches[k].line] :
     k \in 1..Len(FoundMatches)}

\* C11: searchText returns at most maxMatches matches, they are the first
\* maxMatches of the ordered list of all matches, and once maxMatches
\* matches are collected nothing more is done: the last step is the scan of
\* the line of the last match, no later line is scanned and no later file
\* is read (with a cap of 0, no file is read at all).
C11_StopsAtMaxMatches ==
  (Settled("searchText") /\ HasReturned) =>
    /\ Len(FoundMatches) <= CapOfSearch
    /\ LET all == AllMatchKeys
           found == FoundKeys
       IN /\ found \subseteq all
          /\ \A k \in all \ found :
               /\ Len(FoundMatches) = CapOfSearch
               /\ \A m \in found : KeyBefore(m, k)
    /\ CapOfSearch = 0 => OpsOf("readFile") = {} /\ OpsOf("scan") = {}
    /\ (Len(FoundMatches) = CapOfSearch /\ CapOfSearch > 0) =>
         LET last == FoundMatches[Len(FoundMatches)]
         IN /\ fsOps[Len(fsOps)] = FsOp("scan", last.path)
            /\ Cardinality({j \in 1..Len(fsOps) : fsOps[j] = FsOp("scan", last.path)})
                 = last.line
            /\ \A rel \in OpsOf("scan") : rel = last.path \/ StrLess(rel, last.path)

\* C11 happens: "foo" with maxMatches 1 was found in line 1 of b.txt, and
\* the search stopped there although b.txt and d/c.txt hold more
C11_Witness ==
  /\ Settled("searchText") /\ HasReturned
  /\ call.input.query = JString("foo") /\ CapOfSearch = 1
  /\ Len(FoundMatches) = 1 /\ FoundMatches[1].path = "b.txt" /\ FoundMatches[1].line = 1
  /\ Cardinality(AllMatchKeys) >= 3
  /\ "d/c.txt" \notin OpsOf("scan")


\* The required field of the settled invocation is valid (listFiles has none)
ValidRequired ==
  CASE call.tool = "searchText" -> ~InvalidRequired(GivenField("query"))
    [] call.tool = "readFile" -> ~InvalidRequired(GivenField("path"))
    [] OTHER -> TRUE

EmitSteps == {j \in 1..Len(steps) : steps[j].op = "emit"}

\* The events of one invocation as C12 wants them: tool:start first, before
\* any other step, then one terminal event after every other step,
\* tool:success exactly when the call returned and tool:error exactly when
\* it threw
EventLifecycle ==
  /\ Len(events) = 2
  /\ events[1].type = "tool:start" /\ events[1].tool = call.tool
  /\ events[2].type \in {"tool:success", "tool:error"} /\ events[2].tool = call.tool
  /\ (events[2].type = "tool:success") = HasReturned
  /\ (events[2].type = "tool:error") = (outcome.status = "threw")
  /\ EmitSteps = {1, Len(steps)} /\ Len(steps) >= 2
  /\ steps[1] = EmitStep("tool:start")
  /\ steps[Len(steps)] = EmitStep(events[2].type)

\* C12 as stated: every invocation emits tool:start before any work and
\* then exactly one terminal event, tool:success iff it returns and
\* tool:error iff it throws.
C12_AsStated == pc = "settled" => EventLifecycle

\* C12, amended: every invocation whose required field is valid emits
\* tool:start before any work and then exactly one terminal event,
\* tool:success iff it returns and tool:error iff it throws; an invocation
\* with an invalid required field throws ToolInputError and emits no event.
C12_EventsAroundDelegate ==
  pc = "settled" =>
    /\ ValidRequired => EventLifecycle
    /\ ~ValidRequired => events = <<>> /\ steps = <<>> /\ ThrewTag("ToolInputError")

\* C12 happens: a searchText that did work returned between its two events
C12_Witness ==
  /\ Settled("searchText") /\ HasReturned
  /\ Len(steps) > 4 /\ EventLifecycle

\* C12 happens for a call that throws
C12_WitnessError ==
  /\ Settled("readFile") /\ ThrewTag("ToolDeniedError")
  /\ EventLifecycle

\* The run of the operation that the settled invocation delegates to
DelegateRun ==
  CASE call.tool = "listFiles" -> listFilesEffect(fs, rootAbs, CapOfList, call.ord)
    [] call.tool = "searchText" ->
         searchTextEffect(fs, rootAbs, call.input.query.s, CapOfSearch, call.ord)
    [] call.tool = "readFile" ->
         readFileEffect(fs, rootAbs, call.input.path.s, CapOfRead)

\* C13: when the delegated operation fails, the last thing the invocation
\* does is emit tool:error carrying that failure, and what it throws is that
\* failure itself, with its tag and its fields.
C13_FailurePassesThrough ==
  (pc = "settled" /\ ValidRequired) =>
    LET delegated == DelegateRun
    IN ~delegated.ok =>
         /\ outcome = [status |-> "threw", err |-> delegated.err]
         /\ outcome.err.tag \in {"ToolDeniedError", "ToolFsError"}
         /\ Len(events) = 2 /\ events[2].type = "tool:error"
         /\ events[2].data.error = delegated.err
         /\ steps[Len(steps)] = EmitStep("tool:error")

\* C13 happens: the read of a file that is not there failed, was logged and
\* thrown
C13_Witness ==
  /\ Settled("readFile") /\ GaveString("path") /\ call.input.path.s = "nope.txt"
  /\ ~DelegateRun.ok
  /\ outcome.err = ToolFsError("readFile", "ENOENT")
  /\ events[2].data.error = outcome.err


\* The j-th file-system call of the settled invocation failed (a realpath
\* that finds nothing at the path is not reported as a failure: the read
\* that follows reports it)
OpFailed(j) ==
  CASE fsOps[j].op = "readdir" -> ~FsReaddir(fs, fsOps[j].path, call.ord).ok
    [] fsOps[j].op = "realpath" ->
         ~Realpath(fs, fsOps[j].path).ok /\ Realpath(fs, fsOps[j].path).code # "ENOENT"
    [] fsOps[j].op = "readFile" -> ~FsReadFile(fs, fsOps[j].path).ok
    [] OTHER -> FALSE

\* What the Path Policy or the two escape checks hold against the path that
\* a readFile was given, or against a file that a searchText came to
DenialCause ==
  CASE call.tool = "readFile" ->
         \/ LexicallyOutside(rootAbs, call.input.path.s)
         \/ PolicyDenies(RelOf(rootAbs, call.input.path.s))
         \/ RealPathOutside(call.input.path.s)
         \/ /\ RootReal.ok /\ Realpath(fs, PathResolve(rootAbs, call.input.path.s)).ok
            /\ relEscapes(PathRelative(RootReal.path,
                 Realpath(fs, PathResolve(rootAbs, call.input.path.s)).path))
    [] call.tool = "searchText" ->
         \E rel \in OrdinaryFiles : LexicallyOutside(rootAbs, rel) \/ PolicyDenies(rel)
    [] OTHER -> FALSE

\* C14: what listFiles, searchText or readFile throws carries one of the
\* tags ToolInputError, ToolDeniedError, ToolFsError: ToolInputError for an
\* invalid required field and for nothing else, ToolDeniedError for a policy
\* denial or a lexical or realpath escape and for nothing else, ToolFsError
\* for a failed file-system call and for nothing else.
C14_FailureTags ==
  (pc = "settled" /\ outcome.status = "threw") =>
    /\ outcome.err.tag \in {"ToolInputError", "ToolDeniedError", "ToolFsError"}
    /\ ThrewTag("ToolInputError") <=> ~ValidRequired
    /\ ThrewTag("ToolFsError") <=> (fsOps # <<>> /\ OpFailed(Len(fsOps)))
    /\ ThrewTag("ToolDeniedError") => ValidRequired /\ DenialCause
    /\ (ValidRequired /\ call.tool = "readFile"
        /\ \/ LexicallyOutside(rootAbs, call.input.path.s)
           \/ PolicyDenies(RelOf(rootAbs, call.input.path.s))
           \/ RealPathOutside(call.input.path.s))
         => ThrewTag("ToolDeniedError")

\* A call that returns had no failed file-system call
C14_NoFailureSwallowed ==
  (pc = "settled" /\ HasReturned) => \A j \in 1..Len(fsOps) : ~OpFailed(j)

\* C14 happens: readFile of a link that leads out of the root threw
\* ToolDeniedError after two realpath calls that succeeded
C14_Witness ==
  /\ Settled("readFile") /\ GaveString("path") /\ call.input.path.s = "leak.txt"
  /\ RealPathOutside("leak.txt")
  /\ ThrewTag("ToolDeniedError") /\ Len(fsOps) = 2

\* C14 happens for a failed file-system call: a directory that cannot be
\* listed makes listFiles throw ToolFsError
C14_WitnessFs ==
  /\ Settled("listFiles") /\ ThrewTag("ToolFsError")
  /\ fsOps[Len(fsOps)] = FsOp("readdir", rootAbs \o "/d/locked")


\* What a readFile was given resolves inside the root and is not denied
PassesResolver(p) == ~LexicallyOutside(rootAbs, p) /\ ~PolicyDenies(RelOf(rootAbs, p))

\* The real path of what a readFile was given
TargetReal == Realpath(fs, PathResolve(rootAbs, call.input.path.s))

\* C15: for a path that is lexically inside the root and not denied, when
\* nothing exists at it (realpath fails with ENOENT) readFile skips the
\* containment check, goes on to the read and throws the ToolFsError of the
\* read, never a ToolDeniedError and never a result; when realpath fails in
\* another way readFile throws ToolFsError and does not attempt the read.
C15_MissingTargetFailsInRead ==
  (Settled("readFile") /\ ValidRequired /\ PassesResolver(call.input.path.s)
   /\ RootReal.ok /\ ~TargetReal.ok) =>
    /\ ThrewTag("ToolFsError")
    /\ outcome.err.message = TargetReal.code
    /\ TargetReal.code = "ENOENT" =>
         fsOps = <<FsOp("realpath", rootAbs),
                   FsOp("realpath", PathResolve(rootAbs, call.input.path.s)),
                   FsOp("readFile", PathResolve(rootAbs, call.input.path.s))>>
    /\ TargetReal.code # "ENOENT" =>
         fsOps = <<FsOp("realpath", rootAbs),
                   FsOp("realpath", PathResolve(rootAbs, call.input.path.s))>>

\* C15 happens: nope.txt is not there, and the read said so
C15_Witness ==
  /\ Settled("readFile") /\ GaveString("path") /\ call.input.path.s = "nope.txt"
  /\ TargetReal.code = "ENOENT"
  /\ ThrewTag("ToolFsError") /\ fsOps[Len(fsOps)].op = "readFile"

\* C15 happens for another failure of realpath: a.txt is no directory
C15_WitnessOther ==
  /\ Settled("readFile") /\ GaveString("path") /\ call.input.path.s = "a.txt/x"
  /\ TargetReal.code = "ENOTDIR"
  /\ ThrewTag("ToolFsError") /\ fsOps[Len(fsOps)].op = "realpath"


\* The path that a readFile was given, as the file-system calls name it
GivenAbs == PathResolve(rootAbs, call.input.path.s)

\* C16: readFile checks for a lexical escape, then the Path Policy, then the
\* real path, and then reads; the first check that fails decides the failure
\* (a path that escapes and is denied is reported as an escape, a denied
\* path whose real path is outside as denied); a path that the escape check
\* or the policy rejects causes no file-system call, and a path that the
\* realpath check rejects is not read.
C16_StagesInOrder ==
  (Settled("readFile") /\ ValidRequired) =>
    /\ LexicallyOutside(rootAbs, call.input.path.s) =>
         DeniedFor("Path escapes target root") /\ fsOps = <<>>
    /\ (~LexicallyOutside(rootAbs, call.input.path.s)
        /\ PolicyDenies(RelOf(rootAbs, call.input.path.s))) =>
         /\ ThrewTag("ToolDeniedError") /\ fsOps = <<>>
         /\ outcome.err.reason \notin {"Path escapes target root",
                                       "Path resolves outside target root"}
    /\ (PassesResolver(call.input.path.s) /\ RealPathOutside(call.input.path.s)) =>
         /\ DeniedFor("Path resolves outside target root")
         /\ fsOps = <<FsOp("realpath", rootAbs), FsOp("realpath", GivenAbs)>>
    /\ (PassesResolver(call.input.path.s) /\ ~RealPathOutside(call.input.path.s)) =>
         /\ Len(fsOps) >= 2
         /\ fsOps[1] = FsOp("realpath", rootAbs) /\ fsOps[2] = FsOp("realpath", GivenAbs)
         /\ Len(fsOps) <= 3
         /\ Len(fsOps) = 3 => fsOps[3] = FsOp("readFile", GivenAbs)
         /\ HasReturned => Len(fsOps) = 3
    /\ OpsOf("readFile") # {} =>
         /\ PassesResolver(call.input.path.s)
         /\ ~RealPathOutside(call.input.path.s)

\* C16 happens: ../node_modules/x escapes and is denied; it was reported as
\* an escape, without a file-system call
C16_Witness ==
  /\ Settled("readFile") /\ GaveString("path")
  /\ call.input.path.s = "../node_modules/x"
  /\ PolicyDenies(RelOf(rootAbs, call.input.path.s))
  /\ DeniedFor("Path escapes target root") /\ fsOps = <<>>

\* C16 happens for the realpath check: escape/passwd was not read
C16_WitnessRealpath ==
  /\ Settled("readFile") /\ GaveString("path")
  /\ call.input.path.s = "escape/passwd"
  /\ DeniedFor("Path resolves outside target root")
  /\ Len(fsOps) = 2 /\ OpsOf("readFile") = {}


\* The roots that the constructions of the model resolve to
ResolvedRoots == {PathResolve("/", rootDir) : rootDir \in RootDirs}

\* The root in the result of every listFiles and searchText is the root
\* resolved at construction, and every file-system call of a tool reads
RootReportedAndReadOnly ==
  /\ rootAbs \in ResolvedRoots
  /\ rootAbs = "/" \o Join(AbsSegs(rootAbs), "/")
  /\ (pc = "settled" /\ HasReturned /\ call.tool \in {"listFiles", "searchText"})
       => outcome.value.root = rootAbs
  /\ \A j \in 1..Len(fsOps) : fsOps[j].op \in {"readdir", "realpath", "readFile", "scan"}

\* C18: the root of a tool set is fixed at construction: no invocation
\* changes it, every listFiles and searchText result names it as its root
\* after any sequence of invocations, and no invocation creates, modifies or
\* deletes an entry of the directory tree.
C18_RootAndTreeFixed ==
  /\ []RootReportedAndReadOnly
  /\ [][rootAbs' = rootAbs /\ fs' = fs]_vars

\* C18 happens: a tool set made for the link /l reported /l as the root of
\* a search that read files
C18_Witness ==
  /\ Settled("searchText") /\ HasReturned
  /\ rootAbs = "/l" /\ outcome.value.root = "/l"
  /\ OpsOf("readFile") # {}

(***************************************************************************)
(* Properties of the client and of the configuration                       *)
(***************************************************************************)

\* The fetches of the call of the client, in order: one for each attempt
AttemptsMade == IF client.pc = "idle" THEN <<>> ELSE client.fetched

CallDone == client.pc = "done"

\* The attempt failed in a way a retry may follow: the fetch was rejected
\* (a NetworkError), or the response has one of the retriable statuses
RetriableFailure(f) ==
  \/ f.kind = "rejected"
  \/ f.kind = "response" /\ (f.status \in {408, 409, 425, 429} \/ f.status >= 500)

\* The attempt got a 2xx response
Got2xx(f) == f.kind = "response" /\ f.status \in 200..299

\* The body text is JSON, or empty
ParsableBodies == {"", "{}", "{\"id\":\"r\"}"}

\* C19: chatCompletions retries a failed attempt only when the failure is a
\* NetworkError or an HttpError with status 408, 409, 425, 429 or >= 500: a
\* non-2xx response with another status ends the call with that HttpError
\* (after exactly one attempt when it answers the first), a ParseError is
\* never retried, and a 429 followed by a parsable 200 is a success after
\* exactly two attempts.
C19_RetryOnlyRetriable ==
  /\ \A j \in 1..Len(AttemptsMade) :
       (j < Len(AttemptsMade) \/ client.pc = "attempt")
         => RetriableFailure(AttemptsMade[j])
  /\ \A j \in 1..Len(AttemptsMade) :
       (AttemptsMade[j].kind = "response" /\ ~Got2xx(AttemptsMade[j])
        /\ ~RetriableFailure(AttemptsMade[j]))
         => /\ j = Len(AttemptsMade) /\ CallDone
            /\ j = 1 => Len(AttemptsMade) = 1
            /\ ~client.result.ok
            /\ client.result.err.tag = "HttpError"
            /\ client.result.err.status = AttemptsMade[j].status
  /\ \A j \in 1..Len(AttemptsMade) :
       (Got2xx(AttemptsMade[j]) /\ AttemptsMade[j].bodyText \notin ParsableBodies)
         => /\ j = Len(AttemptsMade) /\ CallDone
            /\ ~client.result.ok
            /\ client.result.err.tag = "ParseError"
  /\ (/\ CallDone /\ Len(AttemptsMade) >= 2
      /\ AttemptsMade[1].kind = "response" /\ AttemptsMade[1].status = 429
      /\ AttemptsMade[2].kind = "response" /\ AttemptsMade[2].status = 200
      /\ AttemptsMade[2].bodyText \in ParsableBodies)
       => client.result.ok /\ Len(AttemptsMade) = 2

\* C19 happens: a 429 and then a 200 gave the body of the 200 after two
\* attempts and one delay
C19_Witness ==
  /\ CallDone
  /\ AttemptsMade = <<Response(429, "e"), Response(200, "{\"id\":\"r\"}")>>
  /\ client.result.ok /\ client.result.value.body.id = "r"
  /\ Len(client.delays) = 1

\* C19 happens for a status that is not retried: a 400 failed the call at once
C19_WitnessOneAttempt ==
  /\ CallDone
  /\ AttemptsMade = <<Response(400, "e")>>
  /\ ~client.result.ok /\ client.result.err.tag = "HttpError"
  /\ client.delays = <<>>

\* C19 happens for a ParseError: after a retried network failure, a 200
\* whose body is no JSON ended the call
C19_WitnessParseError ==
  /\ CallDone
  /\ AttemptsMade = <<Rejected("timeout"), Response(200, "<")>>
  /\ ~client.result.ok /\ client.result.err.tag = "ParseError"

\* The value is unset, or nothing but white space
BlankVar(v) ==
  v.t = "undefined" \/ \A i \in 1..Len(v.s) : SubSeq(v.s, i, i) \in {" ", "\n", "\r"}

\* t is s without the white space at its two ends
IsTrimOf(t, s) ==
  /\ t # ""
  /\ SubSeq(t, 1, 1) \notin {" ", "\n", "\r"}
  /\ SubSeq(t, Len(t), Len(t)) \notin {" ", "\n", "\r"}
  /\ \E i \in 1..Len(s) :
       /\ i + Len(t) - 1 <= Len(s)
       /\ SubSeq(s, i, i + Len(t) - 1) = t
       /\ \A j \in (1..(i - 1)) \cup ((i + Len(t))..Len(s)) :
            SubSeq(s, j, j) \in {" ", "\n", "\r"}

ConfigFailedFor(key) ==
  /\ ~appConfig.result.ok
  /\ appConfig.result.err.tag = "ConfigError"
  /\ appConfig.result.err.key = key

\* C20: readAppConfig fails with the ConfigError of GROK_KEY when GROK_KEY
\* is unset or blank, with that of GROK_MODEL when only GROK_MODEL is, and
\* succeeds with the two trimmed values otherwise; a failure carries no
\* configuration, and no client is built from it.
C20_ConfigErrorOrTrimmed ==
  appConfig.read =>
    /\ BlankVar(env["GROK_KEY"]) => ConfigFailedFor("GROK_KEY")
    /\ (~BlankVar(env["GROK_KEY"]) /\ BlankVar(env["GROK_MODEL"]))
         => ConfigFailedFor("GROK_MODEL")
    /\ (~BlankVar(env["GROK_KEY"]) /\ ~BlankVar(env["GROK_MODEL"]))
         => /\ appConfig.result.ok
            /\ IsTrimOf(appConfig.result.value.grokKey, env["GROK_KEY"].s)
            /\ IsTrimOf(appConfig.result.value.grokModel, env["GROK_MODEL"].s)
    /\ ~appConfig.result.ok
         => /\ DOMAIN appConfig.result = {"ok", "err"}
            /\ client = ClientIdle

\* C20 happens: with both variables missing the error names GROK_KEY
C20_Witness ==
  /\ appConfig.read
  /\ env["GROK_KEY"] = JString(" ") /\ env["GROK_MODEL"] = Undefined
  /\ ConfigFailedFor("GROK_KEY")

\* C20 happens for a success: " k " and "m " were read as "k" and "m", and
\* the client was built with the key
C20_WitnessTrimmed ==
  /\ appConfig.read /\ appConfig.result.ok
  /\ env["GROK_KEY"] = JString(" k ") /\ env["GROK_MODEL"] = JString("m ")
  /\ appConfig.result.value.grokKey = "k" /\ appConfig.result.value.grokModel = "m"
  /\ client.pc = "attempt" /\ client.authorization = "Bearer k"

\* C20 happens for GROK_MODEL alone: a blank GROK_MODEL is named
C20_WitnessModel ==
  /\ appConfig.read
  /\ env["GROK_KEY"] = JString("k") /\ env["GROK_MODEL"] = JString(" \n")
  /\ ConfigFailedFor("GROK_MODEL")

(***************************************************************************)
(* Properties of concurrent invocations                                    *)
(***************************************************************************)

\* What the invocation c gives, does and emits when it runs alone: from its
\* call to its settling with no step of another invocation in between
Alone(c) ==
  CASE c.tool = "listFiles" -> listFilesExecute(fs, rootAbs, c.input, c.ord)
    [] c.tool = "searchText" -> searchTextExecute(fs, rootAbs, c.input, c.ord)
    [] c.tool = "readFile" -> readFileExecute(fs, rootAbs, c.input)

InFlight == {p \in Procs : procs[p].pc # "idle"}

RECURSIVE EventsOfAll(_)
EventsOfAll(ps) ==
  IF ps = {} THEN 0
  ELSE LET p == CHOOSE p \in ps : TRUE
       IN Len(procs[p].events) + EventsOfAll(ps \ {p})

\* Every settled invocation returned or threw what it returns or throws
\* alone, after the same file-system calls and with the same events, and the
\* event log holds the events of the invocations and nothing else
SettledAsAlone ==
  /\ \A p \in Procs :
       procs[p].pc = "settled" =>
         LET alone == Alone(procs[p].call)
         IN /\ procs[p].outcome = alone.outcome
            /\ procs[p].ops = alone.ops
            /\ procs[p].events = alone.events
  /\ Len(log) = EventsOfAll(InFlight)

\* C17: invocations that run concurrently on one tool set, their steps
\* interleaved in any way, each return or throw what they return or throw
\* alone; a step of an invocation changes the locals of no other invocation,
\* and no step changes the directory tree or the root.
C17_ConcurrentAsAlone ==
  /\ []SettledAsAlone
  /\ [][/\ fs' = fs /\ rootAbs' = rootAbs
        /\ \/ \A p \in Procs : procs'[p] = IdleProc
           \/ \E p \in Procs : \A q \in Procs \ {p} : procs'[q] = procs[q]]_vars

\* C17 happens: two searches for different strings were in flight together
\* (both had started before either ended), and each found its own matches
C17_Witness ==
  /\ procs["p"].pc = "settled" /\ procs["q"].pc = "settled"
  /\ procs["p"].call.tool = "searchText" /\ procs["p"].call.input.query.s = "foo"
  /\ procs["q"].call.tool = "searchText" /\ procs["q"].call.input.query.s = "bar"
  /\ procs["p"].outcome.status = "returned"
  /\ procs["q"].outcome.status = "returned"
  /\ Len(procs["p"].outcome.value.matches) = 3
  /\ Len(procs["q"].outcome.value.matches) = 2
  /\ Len(log) = 4
  /\ log[1].type = "tool:start" /\ log[2].type = "tool:start"
  /\ log[3].data.matchCount = 2

\* C17 happens for a failure: a readFile was denied at its realpath check
\* while a listFiles that had started before it was still walking
C17_WitnessFailure ==
  /\ procs["p"].pc = "settled" /\ procs["q"].pc = "walk"
  /\ procs["p"].call.tool = "readFile" /\ procs["q"].call.tool = "listFiles"
  /\ procs["p"].outcome.status = "threw"
  /\ procs["p"].outcome.err.tag = "ToolDeniedError"
  /\ procs["p"].outcome.err.reason = "Path resolves outside target root"
  /\ Len(procs["q"].ops) = 1
  /\ log[1].tool = "listFiles"

\* C23: the tool field of every ToolDeniedError, ToolFsError and
\* ToolInputError that an invocation throws is the name of the operation
\* that was invoked, also when searchText fails while it walks the tree.
C23_ErrorNamesInvokedTool ==
  (pc = "settled" /\ outcome.status = "threw"
   /\ outcome.err.tag \in {"ToolDeniedError", "ToolFsError", "ToolInputError"})
    => outcome.err.tool = call.tool

\* The file-system calls of the settled invocation that read a directory or
\* a file and failed
FailedReads ==
  {j \in 1..Len(fsOps) : fsOps[j].op \in {"readdir", "readFile"} /\ OpFailed(j)}

\* C25: when a directory read of the walk or the read of a candidate file
\* fails, listFiles or searchText throws ToolFsError at that very call and
\* returns nothing; what they return is complete (every ordinary file, every
\* match) unless the max or maxMatches cap cut it.
C25_NoPartialResults ==
  (pc = "settled" /\ call.tool \in {"listFiles", "searchText"}) =>
    /\ \A j \in FailedReads : j = Len(fsOps) /\ ThrewTag("ToolFsError")
    /\ (HasReturned /\ call.tool = "listFiles") =>
         Len(ListedFiles) = CapOfList \/ ListedSet = OrdinaryFiles
    /\ (HasReturned /\ call.tool = "searchText") =>
         Len(FoundMatches) = CapOfSearch \/ FoundKeys = AllMatchKeys

\* C25 happens: searchText had found the three lines with "foo" in b.txt
\* and d/c.txt when the read of u.txt failed, and it threw ToolFsError
C25_Witness ==
  /\ Settled("searchText") /\ ThrewTag("ToolFsError")
  /\ call.input.query = JString("foo")
  /\ fsOps[Len(fsOps)].op = "readFile" /\ OpFailed(Len(fsOps))
  /\ FsOp("scan", "b.txt") \in {fsOps[j] : j \in 1..Len(fsOps)}
  /\ FsOp("scan", "d/c.txt") \in {fsOps[j] : j \in 1..Len(fsOps)}

\* C25 happens in the walk: listFiles threw ToolFsError at the directory it
\* could not read, after it had read the root
C25_WitnessWalk ==
  /\ Settled("listFiles") /\ ThrewTag("ToolFsError")
  /\ Len(fsOps) > 1 /\ fsOps[Len(fsOps)].op = "readdir" /\ OpFailed(Len(fsOps))

\* The path of a file-system call lies in or beneath an entry of the root's
\* tree that is named node_modules, .git or output ("scan" steps carry the
\* root-relative path, the other calls the absolute one)
InPrunedSubtree(op) ==
  LET segs == IF op.op = "scan" THEN SegsOf(op.path)
              ELSE SegsOf(PathRelative(rootAbs, op.path))
  IN \E i \in 1..Len(segs) : segs[i] \in SKIP_DIRS

\* The directories of the file system whose name is one the walk prunes
PrunedDirs ==
  {d \in DOMAIN fs : fs[d].kind = "dir" /\ Len(AbsSegs(d)) > 0
                     /\ AbsSegs(d)[Len(AbsSegs(d))] \in SKIP_DIRS}

\* C26: a listFiles or searchText walk makes no file-system call on an entry
\* named node_modules, .git or output nor on anything beneath one, at any
\* depth below the root, and returns no path through one.
C26_PrunedNeverRead ==
  (pc = "settled" /\ call.tool \in {"listFiles", "searchText"}) =>
    /\ \A j \in 1..Len(fsOps) : ~InPrunedSubtree(fsOps[j])
    /\ (HasReturned /\ call.tool = "listFiles") =>
         \A rel \in ListedSet : \A i \in 1..Len(SegsOf(rel)) : SegsOf(rel)[i] \notin SKIP_DIRS
    /\ (HasReturned /\ call.tool = "searchText") =>
         \A k \in 1..Len(FoundMatches) :
           \A i \in 1..Len(SegsOf(FoundMatches[k].path)) :
             SegsOf(FoundMatches[k].path)[i] \notin SKIP_DIRS

\* C26 happens: the tree holds node_modules and output in the root and .git
\* in d, output cannot be read, and the walk read the root and d and returned
C26_Witness ==
  /\ Settled("listFiles") /\ HasReturned
  /\ {"/w/node_modules", "/w/d/.git", "/w/output"} \subseteq PrunedDirs
  /\ ~fs["/w/output"].perm
  /\ OpsOf("readdir") = {rootAbs, PathJoin(rootAbs, "d")}
  /\ "d/c.txt" \in ListedSet

\* The root-relative real location of the path a readFile was given: the
\* real path of the resolved path, relative to the real path of the root
RealRelOf(p) ==
  PathRelative(RootReal.path, Realpath(fs, PathResolve(rootAbs, p)).path)

\* C28: readFile returns no content of a file whose real location, relative
\* to the real root, is denied by the Path Policy, whatever the name the
\* file was reached by (link.txt, a symbolic link to .env, is denied).
C28_DenylistOnRealPath ==
  (Settled("readFile") /\ HasReturned) => ~PolicyDenies(RealRelOf(call.input.path.s))

\* C29: the cap that an invocation hands to its operation, as the tool:start
\* event records it (max, maxMatches or maxBytes), is an integer >= 1 for
\* every raw input, fractional values between 0 and 1 included.
C29_CapAtLeastOne ==
  (pc = "settled" /\ events # <<>>) =>
    CASE call.tool = "listFiles" -> events[1].data.max >= 1
      [] call.tool = "searchText" -> events[1].data.maxMatches >= 1
      [] call.tool = "readFile" -> events[1].data.maxBytes >= 1

\* What the attempts of the call have come to, at any moment: at most
\* MAX_RETRIES attempts with one delay between two of them; every attempt
\* but the last failed, so none follows a success; a finished call carries
\* the outcome of its last attempt, and a call that met nothing but
\* retriable failures finished after exactly MAX_RETRIES attempts.
AttemptsBounded ==
  /\ Len(AttemptsMade) <= MAX_RETRIES
  /\ \A j \in 1..Len(AttemptsMade) :
       (j < Len(AttemptsMade) \/ client.pc = "attempt") => ~request(AttemptsMade[j]).ok
  /\ client.pc = "attempt" => Len(client.delays) = Len(AttemptsMade)
  /\ CallDone =>
       /\ Len(AttemptsMade) >= 1
       /\ Len(client.delays) = Len(AttemptsMade) - 1
       /\ client.result = request(AttemptsMade[Len(AttemptsMade)])
       /\ (\A j \in 1..Len(AttemptsMade) : RetriableFailure(AttemptsMade[j]))
            => Len(AttemptsMade) = MAX_RETRIES /\ ~client.result.ok

Message(role, content) == [role |-> role, content |-> content, tool_calls |-> <<>>]

RequestBody(messages, tools) == [messages |-> messages, tools |-> tools]

\* makeRequest of the tests: one user message, no tools
makeRequest(content) == RequestBody(<<Message("user", JString(content))>>, <<>>)

DigitChar(d) == SubSeq("0123456789", d + 1, d + 1)

\* String(n) of a natural number: its decimal digits
RECURSIVE NumberToString(_)
NumberToString(n) ==
  IF n < 10 THEN DigitChar(n) ELSE NumberToString(n \div 10) \o DigitChar(n % 10)

\* JSON.stringify of the argument objects of the tool calls
JsonStringify(arguments) ==
  CASE arguments = <<>> -> "{}"
    [] arguments = [max |-> 50] -> "{\"max\":50}"
    [] arguments = [query |-> "foo"] -> "{\"query\":\"foo\"}"
    [] arguments = [query |-> "export", maxMatches |-> 10] ->
         "{\"query\":\"export\",\"maxMatches\":10}"
    [] arguments = [path |-> "package.json"] -> "{\"path\":\"package.json\"}"

MockToolCall(id, name, arguments) == [id |-> id, name |-> name, arguments |-> arguments]

TextResponse(content) == [type |-> "text", content |-> content]
ToolCallResponse(toolCalls) == [type |-> "tool_call", toolCalls |-> toolCalls]
FunctionResponse(handler) == [type |-> "function", handler |-> handler]

\* A scenario; delayMs is 0 when the scenario has none
MockScenario(name, responses, delayMs) ==
  [name |-> name, responses |-> responses, delayMs |-> delayMs]

simpleTextScenario(text) == MockScenario("simple-text", <<TextResponse(text)>>, 0)

toolThenAnswerScenario(toolCall, finalAnswer) ==
  MockScenario("tool-then-answer",
               <<ToolCallResponse(<<toolCall>>), TextResponse(finalAnswer)>>, 0)

multiToolScenario(toolCalls, finalAnswer) ==
  MockScenario("multi-tool",
               [i \in 1..Len(toolCalls) |-> ToolCallResponse(<<toolCalls[i]>>)]
                 \o <<TextResponse(finalAnswer)>>, 0)

echoScenario == MockScenario("echo", <<FunctionResponse("echo")>>, 0)

\* repoQaDemoScenario; of the final text its first line stands for the whole
repoQaDemoScenario ==
  MockScenario("repo-qa-demo",
    <<ToolCallResponse(<<MockToolCall("tc1", "listFiles", [max |-> 50])>>),
      ToolCallResponse(<<MockToolCall("tc2", "searchText",
                                      [query |-> "export", maxMatches |-> 10])>>),
      ToolCallResponse(<<MockToolCall("tc3", "readFile", [path |-> "package.json"])>>),
      TextResponse("## Repository Analysis (Mock Response)")>>,
    100)

\* [...messages].reverse().find((m) => m.role === "user"): the index of the
\* last user message, 0 when there is none
lastUserIndex(messages) ==
  IF \E i \in 1..Len(messages) : messages[i].role = "user"
    THEN CHOOSE i \in 1..Len(messages) :
           /\ messages[i].role = "user"
           /\ \A j \in (i + 1)..Len(messages) : messages[j].role # "user"
  ELSE 0

\* messages.find((m) => m.role === "user"): the index of the first one
firstUserIndex(messages) ==
  IF \E i \in 1..Len(messages) : messages[i].role = "user"
    THEN CHOOSE i \in 1..Len(messages) :
           /\ messages[i].role = "user"
           /\ \A j \in 1..(i - 1) : messages[j].role # "user"
  ELSE 0

\* x?.content ?? fallback, for the message at index i (0: no message)
contentOr(messages, i, fallback) ==
  IF i = 0 THEN fallback
  ELSE IF messages[i].content.t # "string" THEN fallback
  ELSE messages[i].content.s

\* A defect: an Error thrown inside Effect.gen
CauseDie(defect) == [tag |-> "Die", defect |-> defect]
JsError(message) == [tag |-> "Error", message |-> message]

\* mockResponse.handler(body): the handler of echoScenario, and a handler
\* that throws
applyHandler(handler, body) ==
  CASE handler = "echo" ->
         EffectSucceed(TextResponse(
           "Echo: " \o contentOr(body.messages, lastUserIndex(body.messages),
                                 "(no user message found)")))
    [] handler = "nested" -> EffectSucceed(FunctionResponse("echo"))
    [] OTHER -> EffectFail(JsError("handler failed"))

AssistantText(content) ==
  [role |-> "assistant", content |-> JString(content), tool_calls |-> <<>>]

OpenAiToolCall(id, name, arguments) ==
  [id |-> id, type |-> "function", function |-> [name |-> name, arguments |-> arguments]]

AssistantToolCalls(toolCalls) ==
  [role |-> "assistant", content |-> JNull,
   tool_calls |-> [i \in 1..Len(toolCalls) |->
                     OpenAiToolCall(toolCalls[i].id, toolCalls[i].name,
                                    JsonStringify(toolCalls[i].arguments))]]

Choice(message, finish_reason) ==
  [index |-> 0, message |-> message, finish_reason |-> finish_reason]

Usage(prompt, completion) ==
  [prompt_tokens |-> prompt, completion_tokens |-> completion,
   total_tokens |-> prompt + completion]

\* buildResponse
buildResponse(mockResponse, callIndex) ==
  IF mockResponse.type = "function"
    THEN EffectFail(JsError("Function response should be resolved before building"))
  ELSE IF mockResponse.type = "text"
    THEN EffectSucceed([id |-> "mock-" \o NumberToString(callIndex),
                        choices |-> <<Choice(AssistantText(mockResponse.content), "stop")>>,
                        usage |-> Usage(10, 20)])
  ELSE EffectSucceed([id |-> "mock-" \o NumberToString(callIndex),
                      choices |-> <<Choice(AssistantToolCalls(mockResponse.toolCalls),
                                           "tool_calls")>>,
                      usage |-> Usage(10, 5)])

\* What a call of chatCompletions leaves: the counter, the index of the
\* response it took (0: none) and its exit
MockLeft(callIndex, responseIndex, exit) ==
  [callIndex |-> callIndex, responseIndex |-> responseIndex, exit |-> exit]

\* chatCompletions, from the response built on
mockBuilt(scenario, callIndex, responseIndex, built) ==
  IF ~built.ok THEN MockLeft(callIndex, responseIndex, ExitFailure(CauseDie(built.err)))
  ELSE MockLeft(callIndex, responseIndex,
                ExitSuccess([body |-> built.value,
                             headers |-> "x-mock-scenario" :> scenario.name @@
                                         "x-mock-call-index" :> NumberToString(callIndex)]))

\* chatCompletions, from the resolved response on
mockResolved(scenario, callIndex, responseIndex, resolved) ==
  IF ~resolved.ok
    THEN MockLeft(callIndex, responseIndex, ExitFailure(CauseDie(resolved.err)))
  ELSE mockBuilt(scenario, callIndex, responseIndex,
                 buildResponse(resolved.value, callIndex))

\* chatCompletions, after the response is taken and the counter incremented
mockTaken(scenario, callIndex, responseIndex, mockResponse, body) ==
  IF mockResponse.type = "function"
    THEN mockResolved(scenario, callIndex, responseIndex,
                      applyHandler(mockResponse.handler, body))
  ELSE mockResolved(scenario, callIndex, responseIndex, EffectSucceed(mockResponse))

\* chatCompletions that increments the counter before it takes the response
mockChatCompletionsIncrementFirst(scenario, callIndex, body) ==
  IF Len(scenario.responses) = 0
    THEN MockLeft(callIndex, 0,
                  ExitFailure(CauseDie(JsError("No mock response at index NaN"))))
  ELSE mockTaken(scenario, callIndex + 1, (callIndex + 1) % Len(scenario.responses),
                 scenario.responses[((callIndex + 1) % Len(scenario.responses)) + 1],
                 body)

\* The body of the effect of chatCompletions after its sleep, run with the
\* counter at callIndex: callIndex % 0 is NaN, and responses[NaN] undefined
mockChatCompletions(scenario, callIndex, body) ==
  IF Len(scenario.responses) = 0
    THEN MockLeft(callIndex, 0,
                  ExitFailure(CauseDie(JsError("No mock response at index NaN"))))
  ELSE mockTaken(scenario, callIndex + 1, callIndex % Len(scenario.responses),
                 scenario.responses[(callIndex % Len(scenario.responses)) + 1], body)

\* createMockClient
createMockClient(scenario) ==
  [made |-> TRUE, scenario |-> scenario, callIndex |-> 0, calls |-> <<>>]

(***************************************************************************)
(* The state machine of the mock client: calls of chatCompletions are run  *)
(* one after the other or together; a call of a scenario with a delay      *)
(* sleeps first, and the sleeps, all of one length, end in the order in    *)
(* which they began.                                                       *)
(***************************************************************************)

\* At most MaxMockCalls calls of one client
MaxMockCalls == 10

MockScenarios ==
  {simpleTextScenario("repeat me"),
   toolThenAnswerScenario(MockToolCall("tc1", "listFiles", <<>>), "final answer"),
   multiToolScenario(<<MockToolCall("tc1", "listFiles", <<>>),
                       MockToolCall("tc2", "searchText", [query |-> "foo"])>>, "done"),
   echoScenario,
   repoQaDemoScenario,
   MockScenario("empty", <<>>, 0),
   MockScenario("handlers", <<FunctionResponse("throws"), TextResponse("t"),
                              FunctionResponse("nested")>>, 50)}

MockBodies ==
  {makeRequest("ping 123"),
   RequestBody(<<Message("system", JString("you are a bot"))>>, <<>>)}

MockInit ==
  /\ mock \in {createMockClient(s) : s \in MockScenarios}
  /\ smart = NotMade
  /\ stream = StreamIdle
  /\ ToolsAtRest
  /\ ClientAtRest
  /\ ConcAtRest

Sleeping(body) == [pc |-> "sleeping", body |-> body]
Answered(body, left) ==
  [pc |-> "done", body |-> body, responseIndex |-> left.responseIndex, exit |-> left.exit]

\* The mock client after the call at position k ran the body of its effect
mockRun(m, k, body) ==
  [m EXCEPT !.callIndex = mockChatCompletions(m.scenario, m.callIndex, body).callIndex,
            !.calls[k] = Answered(body, mockChatCompletions(m.scenario, m.callIndex, body))]

\* chatCompletions is called and its effect run: it sleeps when the scenario
\* has a delay, else it answers at once
MockCall ==
  /\ mock.made
  /\ Len(mock.calls) < MaxMockCalls
  /\ \E body \in MockBodies :
       mock' = IF mock.scenario.delayMs > 0
                 THEN [mock EXCEPT !.calls = Append(@, Sleeping(body))]
               ELSE mockRun([mock EXCEPT !.calls = Append(@, Sleeping(body))],
                            Len(mock.calls) + 1, body)
  /\ UNCHANGED <<smart, stream>>
  /\ UNCHANGED toolVars
  /\ UNCHANGED clientVars
  /\ UNCHANGED concVars

\* The sleep of the earliest sleeping call ends, and the call answers
MockWake ==
  /\ mock.made
  /\ \E k \in 1..Len(mock.calls) :
       /\ mock.calls[k].pc = "sleeping"
       /\ \A j \in 1..(k - 1) : mock.calls[j].pc = "done"
       /\ mock' = mockRun(mock, k, mock.calls[k].body)
  /\ UNCHANGED <<smart, stream>>
  /\ UNCHANGED toolVars
  /\ UNCHANGED clientVars
  /\ UNCHANGED concVars

MockNext == MockCall \/ MockWake

MockSpec == MockInit /\ [][MockNext]_vars

(***************************************************************************)
(* Claims about the mock client                                            *)
(***************************************************************************)

\* The number that a string of decimal digits without a leading zero
\* denotes, -1 for any other string
RECURSIVE DecimalValue(_)
DecimalValue(s) ==
  IF Len(s) = 0 THEN -1
  ELSE LET d == CHOOSE d \in 0..10 : d = 10 \/ SubSeq(s, Len(s), Len(s)) = DigitChar(d)
       IN IF d = 10 THEN -1
          ELSE IF Len(s) = 1 THEN d
          ELSE IF DecimalValue(SubSeq(s, 1, Len(s) - 1)) <= 0 THEN -1
          ELSE 10 * DecimalValue(SubSeq(s, 1, Len(s) - 1)) + d

MockAnswers == {k \in 1..Len(mock.calls) : mock.calls[k].pc = "done"}

\* C21: the k-th call of a mock client whose scenario has n >= 1 responses
\* is answered with responses[(k-1) mod n] (the text or the tool calls that
\* the response holds), whatever the calls before it came to, and the
\* x-mock-call-index header of its answer is k in decimal.
C21_MockCyclesResponses ==
  (mock.made /\ Len(mock.scenario.responses) >= 1) =>
    \A k \in MockAnswers :
      LET n == Len(mock.scenario.responses)
          r == mock.scenario.responses[((k - 1) % n) + 1]
          c == mock.calls[k]
      IN /\ c.responseIndex = (k - 1) % n
         /\ r.type = "text" =>
              /\ c.exit.tag = "Success"
              /\ c.exit.value.body.choices[1].message.content = JString(r.content)
              /\ c.exit.value.body.choices[1].finish_reason = "stop"
         /\ r.type = "tool_call" =>
              /\ c.exit.tag = "Success"
              /\ c.exit.value.body.choices[1].finish_reason = "tool_calls"
              /\ Len(c.exit.value.body.choices[1].message.tool_calls) = Len(r.toolCalls)
              /\ \A i \in 1..Len(r.toolCalls) :
                   /\ c.exit.value.body.choices[1].message.tool_calls[i].id = r.toolCalls[i].id
                   /\ c.exit.value.body.choices[1].message.tool_calls[i].function.name
                        = r.toolCalls[i].name
         /\ c.exit.tag = "Success" =>
              DecimalValue(c.exit.value.headers["x-mock-call-index"]) = k

\* C21 happens: the four responses of the repo-qa-demo scenario were given
\* in order, the fifth call got the first again, and the tenth call the
\* second with the header "10"
C21_Witness ==
  /\ mock.made /\ mock.scenario = repoQaDemoScenario
  /\ Len(mock.calls) = 10 /\ MockAnswers = 1..10
  /\ \A k \in 1..3 :
       mock.calls[k].exit.value.body.choices[1].message.tool_calls[1].function.name
         = <<"listFiles", "searchText", "readFile">>[k]
  /\ mock.calls[4].exit.value.body.choices[1].message.content.t = "string"
  /\ mock.calls[5].exit.value.body.choices[1].message.tool_calls[1].function.name
       = "listFiles"
  /\ mock.calls[10].exit.value.body.choices[1].message.tool_calls[1].function.name
       = "searchText"
  /\ mock.calls[10].exit.value.headers["x-mock-call-index"] = "10"

(***************************************************************************)
(* The smart mock client (mock/shared.ts)                                  *)
(***************************************************************************)

\* buildTextResponse; now is what Date.now() gives
buildTextResponse(content, now) ==
  [body |-> [id |-> "mock-" \o NumberToString(now),
             choices |-> <<Choice(AssistantText(content), "stop")>>,
             usage |-> Usage(100, 200)],
   headers |-> "x-mock" :> "true"]

\* buildToolCallResponse
buildToolCallResponse(toolCalls, now) ==
  [body |-> [id |-> "mock-" \o NumberToString(now),
             choices |-> <<Choice(AssistantToolCalls(toolCalls), "tool_calls")>>,
             usage |-> Usage(50, 10)],
   headers |-> "x-mock" :> "true"]

\* The names of the tools that the assistant messages of the body called
calledTools(body) ==
  UNION {{body.messages[i].tool_calls[j].function.name :
            j \in 1..Len(body.messages[i].tool_calls)} :
         i \in {k \in 1..Len(body.messages) : body.messages[k].role = "assistant"}}

NoTool == [name |-> ""]

\* selectNextTool, from the set of the called tools on; NoTool is its null
selectNextTool(calledNames, availableTools, now) ==
  IF "searchText" \notin calledNames /\ SeqIncludes(availableTools, "searchText")
    THEN MockToolCall("tc" \o NumberToString(now), "searchText",
                      [query |-> "export", maxMatches |-> 10])
  ELSE IF "readFile" \notin calledNames /\ SeqIncludes(availableTools, "readFile")
    THEN MockToolCall("tc" \o NumberToString(now), "readFile", [path |-> "package.json"])
  ELSE NoTool

\* generateSmartAnswer, from the lower-cased query on; of each of the three
\* texts its first line stands for the whole
smartAnswerOf(query) ==
  IF StrIncludes(query, "run") \/ StrIncludes(query, "start")
     \/ StrIncludes(query, "test") \/ StrIncludes(query, "how")
    THEN "## How to Run This Project (Mock Response)"
  ELSE IF StrIncludes(query, "structure") \/ StrIncludes(query, "architecture")
          \/ StrIncludes(query, "files")
    THEN "## Repository Structure (Mock Response)"
  ELSE "## Analysis (Mock Response)"

generateSmartAnswer(userQuery) == smartAnswerOf(ToLowerCase(userQuery))

\* makeAnswer; the label "" stands for no label
makeAnswer(label, text) ==
  IF label # "" THEN "(" \o label \o ")\n\n" \o text ELSE text

\* conversationStates.delete(convKey)
mapDelete(states, convKey) == [k \in (DOMAIN states) \ {convKey} |-> states[k]]

\* conversationStates.set(convKey, {toolsCalledCount: n})
mapSet(states, convKey, n) ==
  [k \in (DOMAIN states) \cup {convKey} |-> IF k = convKey THEN n ELSE states[k]]

SmartLeft(states, response) == [states |-> states, response |-> response]

\* The final answer: the state of the conversation is dropped
smartFinal(states, convKey, label, userContent, now) ==
  SmartLeft(mapDelete(states, convKey),
            buildTextResponse(makeAnswer(label, generateSmartAnswer(userContent)), now))

\* chatCompletions for a body with tool results, after the increment of
\* toolsCalledCount to count
smartAfterTools(states, convKey, count, label, body, userContent, nextTool, now) ==
  IF count >= 2 THEN smartFinal(states, convKey, label, userContent, now)
  ELSE IF nextTool # NoTool
    THEN SmartLeft(mapSet(states, convKey, count), buildToolCallResponse(<<nextTool>>, now))
  ELSE smartFinal(states, convKey, label, userContent, now)

\* chatCompletions, from the state of the conversation on
smartDecide(states, convKey, label, body, userContent, availableTools, now) ==
  IF \E i \in 1..Len(body.messages) : body.messages[i].role = "tool"
    THEN smartAfterTools(states, convKey, states[convKey] + 1, label, body, userContent,
                         selectNextTool(calledTools(body), availableTools, now), now)
  ELSE IF states[convKey] = 0 /\ SeqIncludes(availableTools, "listFiles")
    THEN SmartLeft(states,
                   buildToolCallResponse(<<MockToolCall("tc1", "listFiles", [max |-> 50])>>,
                                         now))
  ELSE smartFinal(states, convKey, label, userContent, now)

\* firstUserMsg?.content?.slice(0, 50) ?? "default"
convKeyOf(body) ==
  IF firstUserIndex(body.messages) = 0 THEN "default"
  ELSE IF body.messages[firstUserIndex(body.messages)].content.t # "string" THEN "default"
  ELSE SliceTo(body.messages[firstUserIndex(body.messages)].content.s, 50)

\* The body of the effect of chatCompletions after its sleep
smartChatCompletions(states, label, body, now) ==
  smartDecide(IF convKeyOf(body) \in DOMAIN states THEN states
              ELSE mapSet(states, convKeyOf(body), 0),
              convKeyOf(body), label, body,
              contentOr(body.messages, lastUserIndex(body.messages), ""),
              body.tools, now)

\* createSmartMockClient, and the conversations that will be held with it
createSmartMockClient(label, convs) ==
  [made |-> TRUE, label |-> label, conversationStates |-> <<>>, convs |-> convs,
   sleeping |-> <<>>]

(***************************************************************************)
(* The state machine of the smart mock client: each conversation is held   *)
(* by an agent that sends a request, awaits the answer, and after a tool   *)
(* call sends the next request with the call and its result appended.      *)
(***************************************************************************)

\* What Date.now() may give
Clock == {1, 2}

\* At most MaxConversations conversations with one client
MaxConversations == 2

Conversation(userContent, tools) ==
  [pc |-> "ready", body |-> RequestBody(<<Message("user", JString(userContent))>>, tools),
   answers |-> <<>>]

SmartTools ==
  {<<"listFiles", "searchText", "readFile">>, <<"readFile", "searchText", "listFiles">>,
   <<"listFiles">>, <<"searchText", "readFile">>, <<>>}

SmartConversations ==
  {Conversation(u, t) : u \in {"hello", "show me the file structure"}, t \in SmartTools}

SmartInit ==
  /\ smart \in {createSmartMockClient(label, convs) :
                  label \in {"", "mock:smart"},
                  convs \in UNION {[1..n -> SmartConversations] :
                                      n \in 1..MaxConversations}}
  /\ mock = NotMade
  /\ stream = StreamIdle
  /\ ToolsAtRest
  /\ ClientAtRest
  /\ ConcAtRest

\* The messages with which the agent goes on after an answer with tool
\* calls: the assistant message, and the result of each call
continued(messages, message) ==
  messages \o <<message>>
    \o [i \in 1..Len(message.tool_calls) |-> Message("tool", JString("{}"))]

\* The agent of a conversation calls chatCompletions, and the call sleeps
SmartRequest(c) ==
  /\ smart.made
  /\ c \in DOMAIN smart.convs
  /\ smart.convs[c].pc = "ready"
  /\ smart' = [smart EXCEPT !.convs[c].pc = "waiting", !.sleeping = Append(@, c)]
  /\ UNCHANGED <<mock, stream>>
  /\ UNCHANGED toolVars
  /\ UNCHANGED clientVars
  /\ UNCHANGED concVars

\* The conversation after its call was answered with left.response
answeredConv(conv, response) ==
  IF response.body.choices[1].finish_reason = "tool_calls"
    THEN [pc |-> "ready",
          body |-> RequestBody(continued(conv.body.messages,
                                         response.body.choices[1].message),
                               conv.body.tools),
          answers |-> Append(conv.answers, response)]
  ELSE [pc |-> "done", body |-> conv.body, answers |-> Append(conv.answers, response)]

smartRun(s, c, left) ==
  [s EXCEPT !.conversationStates = left.states,
            !.convs[c] = answeredConv(s.convs[c], left.response),
            !.sleeping = Tail(s.sleeping)]

\* The earliest sleep ends, and its call answers
SmartAnswer ==
  /\ smart.made
  /\ smart.sleeping # <<>>
  /\ \E now \in Clock :
       smart' = smartRun(smart, Head(smart.sleeping),
                         smartChatCompletions(smart.conversationStates, smart.label,
                                              smart.convs[Head(smart.sleeping)].body, now))
  /\ UNCHANGED <<mock, stream>>
  /\ UNCHANGED toolVars
  /\ UNCHANGED clientVars
  /\ UNCHANGED concVars

SmartNext == (\E c \in 1..MaxConversations : SmartRequest(c)) \/ SmartAnswer

SmartSpec == SmartInit /\ [][SmartNext]_vars

\* What an answer is: the name of the tool it calls, or "text"
AnswerKind(response) ==
  IF response.body.choices[1].finish_reason = "tool_calls"
    THEN response.body.choices[1].message.tool_calls[1].function.name
  ELSE "text"

\* C22: in a single conversation in which listFiles, searchText and
\* readFile are all available, the smart mock client answers the successive
\* requests with a listFiles call, a searchText call, a readFile call and
\* then the final text.
C22_SmartSequence ==
  (smart.made /\ Len(smart.convs) = 1
   /\ \A t \in {"listFiles", "searchText", "readFile"} :
        SeqIncludes(smart.convs[1].body.tools, t))
    => /\ Len(smart.convs[1].answers) <= 4
       /\ \A i \in 1..Len(smart.convs[1].answers) :
            AnswerKind(smart.convs[1].answers[i])
              = <<"listFiles", "searchText", "readFile", "text">>[i]
       /\ smart.convs[1].pc = "done" => Len(smart.convs[1].answers) = 4

(***************************************************************************)
(* The language model adapter (src/mastra.ts): doGenerate and doStream,    *)
(* from the exit of client.chatCompletions on.                             *)
(***************************************************************************)

ModelAdapterError(message) == [tag |-> "ModelAdapterError", message |-> message]

\* mapFinishReason
mapFinishReason(finish) ==
  CASE finish = "stop" -> "stop"
    [] finish = "length" -> "length"
    [] finish = "tool_calls" -> "tool-calls"
    [] OTHER -> "other"

\* A response without usage has <<>> for it
NoUsage == <<>>

\* usage: resp.usage?.prompt_tokens ?? 0, resp.usage?.completion_tokens ?? 0
usageOf(resp) ==
  IF resp.usage = NoUsage THEN [promptTokens |-> 0, completionTokens |-> 0]
  ELSE [promptTokens |-> resp.usage.prompt_tokens,
        completionTokens |-> resp.usage.completion_tokens]

\* choice.message.tool_calls?.map(...) ?? []
toolCallsOf(choice) ==
  [i \in 1..Len(choice.message.tool_calls) |->
     [toolCallType |-> "function",
      toolCallId |-> choice.message.tool_calls[i].id,
      toolName |-> choice.message.tool_calls[i].function.name,
      args |-> choice.message.tool_calls[i].function.arguments]]

\* What doGenerate returns, as far as doStream reads it; text is undefined
\* when the content of the message is null, toolCalls <<>> when absent
generatedOf(resp, headers, choice) ==
  [finishReason |-> mapFinishReason(choice.finish_reason),
   usage |-> usageOf(resp),
   headers |-> headers,
   text |-> IF choice.message.content.t # "null" THEN choice.message.content
            ELSE Undefined,
   toolCalls |-> toolCallsOf(choice)]

\* getFirstChoice and what follows it in doGenerate
generatedFrom(resp, headers) ==
  IF Len(resp.choices) = 0
    THEN Threw(ModelAdapterError("OpenRouter response has no choices"))
  ELSE Returned(generatedOf(resp, headers, resp.choices[1]))

\* doGenerate, from what runOrThrow gave or threw
doGenerateRun(ran) ==
  IF ran.status = "threw" THEN ran ELSE generatedFrom(ran.value.body, ran.value.headers)

\* doGenerate, from the exit of client.chatCompletions(requestBody)
doGenerate(exit) == doGenerateRun(runOrThrow(exit))

\* A ReadableStream and its controller
NewStream == [queue |-> <<>>, closed |-> FALSE]

\* controller.enqueue(part) (a TypeError on a closed stream: no part)
enqueue(s, part) == IF s.closed THEN s ELSE [s EXCEPT !.queue = Append(@, part)]

\* controller.close()
close(s) == [s EXCEPT !.closed = TRUE]

TextDelta(textDelta) == [type |-> "text-delta", textDelta |-> textDelta]
ToolCallPart(tc) ==
  [type |-> "tool-call", toolCallType |-> tc.toolCallType, toolCallId |-> tc.toolCallId,
   toolName |-> tc.toolName, args |-> tc.args]
FinishPart(finishReason, usage) ==
  [type |-> "finish", finishReason |-> finishReason, usage |-> usage]
ErrorPart(e) == [type |-> "error", error |-> e]

\* for (const tc of generated.toolCalls) controller.enqueue(...), from the
\* i-th tool call on
RECURSIVE enqueueToolCalls(_, _, _)
enqueueToolCalls(s, toolCalls, i) ==
  IF i > Len(toolCalls) THEN s
  ELSE enqueueToolCalls(enqueue(s, ToolCallPart(toolCalls[i])), toolCalls, i + 1)

\* start(controller) of the stream of a result
startGenerated(generated) ==
  close(enqueue(enqueueToolCalls(IF generated.text.t = "string"
                                   THEN enqueue(NewStream, TextDelta(generated.text.s))
                                 ELSE NewStream,
                                 generated.toolCalls, 1),
                FinishPart(generated.finishReason, generated.usage)))

\* start(controller) of the stream of a failure
startFailed(e) ==
  close(enqueue(enqueue(NewStream, ErrorPart(e)),
                FinishPart("error", [promptTokens |-> 0, completionTokens |-> 0])))

Resolved(value) == [settled |-> "resolved", value |-> value]
Rejected_(reason) == [settled |-> "rejected", reason |-> reason]

\* doStream without its catch
doStreamUncaught(generated) ==
  IF generated.status = "threw" THEN Rejected_(generated.err)
  ELSE Resolved([stream |-> startGenerated(generated.value),
                 rawResponse |-> [headers |-> generated.value.headers],
                 warnings |-> <<>>])

\* doStream, from what doGenerate returned or threw: the promise it gives
doStreamOf(generated) ==
  IF generated.status = "threw"
    THEN Resolved([stream |-> startFailed(generated.err),
                   rawResponse |-> [headers |-> <<>>],
                   warnings |-> <<>>])
  ELSE Resolved([stream |-> startGenerated(generated.value),
                 rawResponse |-> [headers |-> generated.value.headers],
                 warnings |-> <<>>])

doStream(exit) == doStreamOf(doGenerate(exit))

(***************************************************************************)
(* The state machine of doStream: the adapter is asked for a stream, the   *)
(* caller reads it part by part to its end.                                *)
(***************************************************************************)

\* At most MaxToolCalls tool calls in one response
MaxToolCalls == 2

ResponseToolCalls ==
  <<OpenAiToolCall("tc1", "listFiles", "{\"max\":50}"),
    OpenAiToolCall("tc2", "readFile", "{\"path\":\"package.json\"}"),
    OpenAiToolCall("tc3", "searchText", "{\"query\":\"foo\"}")>>

\* The responses of the provider: with or without content, tool calls,
\* usage and choice
ChatResponses ==
  {[body |-> [id |-> "r",
              choices |-> <<Choice([role |-> "assistant", content |-> c,
                                    tool_calls |-> SubSeq(ResponseToolCalls, 1, n)], f)>>,
              usage |-> u],
    headers |-> "x-mock" :> "true"] :
     c \in {JNull, JString(""), JString("hi")}, n \in 0..MaxToolCalls,
     f \in {"stop", "tool_calls", "length", "content_filter"},
     u \in {NoUsage, Usage(10, 5)}}
  \cup {[body |-> [id |-> "r", choices |-> <<>>, usage |-> NoUsage],
         headers |-> "x-mock" :> "true"]}

\* What client.chatCompletions may come to
ChatExits ==
  {ExitSuccess(r) : r \in ChatResponses}
  \cup {ExitFailure(CauseFail(e)) :
          e \in {NetworkError("Network error"), HttpError(500, "e"), ParseError("<")}}
  \cup {ExitFailure(CauseDie(JsError("No mock response at index NaN")))}

StreamInit ==
  /\ stream = StreamIdle
  /\ mock = NotMade
  /\ smart = NotMade
  /\ ToolsAtRest
  /\ ClientAtRest
  /\ ConcAtRest

\* doStream is called and its promise settles
DoStream ==
  /\ stream.pc = "idle"
  /\ \E exit \in ChatExits :
       stream' = [pc |-> "settled", exit |-> exit, promise |-> doStream(exit),
                  parts |-> <<>>]
  /\ UNCHANGED <<mock, smart>>
  /\ UNCHANGED toolVars
  /\ UNCHANGED clientVars
  /\ UNCHANGED concVars

\* reader.read(): the next part of the stream, or its end
ReadPart ==
  /\ stream.pc = "settled"
  /\ stream.promise.settled = "resolved"
  /\ stream' =
       IF stream.promise.value.stream.queue # <<>>
         THEN [stream EXCEPT !.parts = Append(@, Head(stream.promise.value.stream.queue)),
                             !.promise.value.stream.queue = Tail(@)]
       ELSE IF stream.promise.value.stream.closed THEN [stream EXCEPT !.pc = "ended"]
       ELSE stream
  /\ UNCHANGED <<mock, smart>>
  /\ UNCHANGED toolVars
  /\ UNCHANGED clientVars
  /\ UNCHANGED concVars

\* The caller is done with the stream, or with the rejection
StreamDone ==
  /\ \/ stream.pc = "ended"
     \/ stream.pc = "settled" /\ stream.promise.settled = "rejected"
  /\ stream' = StreamIdle
  /\ UNCHANGED <<mock, smart>>
  /\ UNCHANGED toolVars
  /\ UNCHANGED clientVars
  /\ UNCHANGED concVars

StreamNext == DoStream \/ ReadPart \/ StreamDone

StreamSpec == StreamInit /\ [][StreamNext]_vars

(***************************************************************************)
(* Claims about doStream                                                   *)
(***************************************************************************)

\* All the parts of the stream: those read and those still queued
AllParts == stream.parts \o stream.promise.value.stream.queue

\* doGenerate succeeds: the call of the client succeeded and its response
\* has a choice
GenerateSucceeds ==
  stream.exit.tag = "Success" /\ Len(stream.exit.value.body.choices) > 0

FinishCount == Cardinality({i \in 1..Len(AllParts) : AllParts[i].type = "finish"})

\* C30: the promise of doStream is never rejected.  When doGenerate
\* succeeded, the stream carries the text delta if the response has text,
\* then one tool-call part for every tool call of the response, in order,
\* then one finish part, and is closed; when doGenerate threw, it carries
\* an error part with what was thrown, then one finish part with
\* finishReason "error", and is closed.  The finish part is the last.
C30_DoStreamNeverRejects ==
  stream.pc # "idle" =>
    /\ stream.promise.settled = "resolved"
    /\ stream.promise.value.stream.closed
    /\ FinishCount = 1
    /\ AllParts[Len(AllParts)].type = "finish"
    /\ GenerateSucceeds =>
         LET message == stream.exit.value.body.choices[1].message
             t == IF message.content.t = "string" THEN 1 ELSE 0
         IN /\ Len(AllParts) = t + Len(message.tool_calls) + 1
            /\ t = 1 => AllParts[1] = TextDelta(message.content.s)
            /\ \A i \in 1..Len(message.tool_calls) :
                 /\ AllParts[t + i].type = "tool-call"
                 /\ AllParts[t + i].toolCallId = message.tool_calls[i].id
                 /\ AllParts[t + i].toolName = message.tool_calls[i].function.name
                 /\ AllParts[t + i].args = message.tool_calls[i].function.arguments
    /\ ~GenerateSucceeds =>
         /\ Len(AllParts) = 2
         /\ AllParts[1].type = "error"
         /\ stream.exit.tag = "Failure" =>
              AllParts[1].error = (IF stream.exit.cause.tag = "Fail"
                                     THEN stream.exit.cause.error ELSE stream.exit.cause)
         /\ AllParts[2].finishReason = "error"
    /\ stream.pc = "ended" => stream.promise.value.stream.queue = <<>>

\* C30 happens: the caller read a text delta, two tool calls in the order
\* of the response and the finish part, and the stream ended
C30_Witness ==
  /\ stream.pc = "ended" /\ GenerateSucceeds
  /\ Len(stream.parts) = 4
  /\ stream.parts[1] = TextDelta("hi")
  /\ stream.parts[2].toolCallId = "tc1" /\ stream.parts[3].toolCallId = "tc2"
  /\ stream.parts[4].type = "finish" /\ stream.parts[4].finishReason = "tool-calls"

\* C30 happens for a failure: the call of the client failed, and the caller
\* read the error and the finish part with finishReason "error"
C30_WitnessError ==
  /\ stream.pc = "ended"
  /\ stream.exit = ExitFailure(CauseFail(HttpError(500, "e")))
  /\ stream.parts = <<ErrorPart(HttpError(500, "e")),
                      FinishPart("error", [promptTokens |-> 0, completionTokens |-> 0])>>

(***************************************************************************)
(* searchText on a tree with more files than listFilesEffect lists for it, *)
(* and on a tree with a file longer than what it reads of a file           *)
(***************************************************************************)

\* The decimal numeral of n < 100, in two digits
TwoDigits(n) == DigitChar(n \div 10) \o DigitChar(n % 10)

\* /w/d01 .. /w/d28, with fifteen files each: 420 files.  In sorted order
\* the files of d01 come first, and in a directory a.txt comes before
\* b01.png.
ManyDirs == {"/w/d" \o TwoDigits(k) : k \in 1..28}

\* The files of d01 .. d26 and of d28: a.txt, then b01.png .. b14.png.  The
\* images hold the text "foo" as well; a.txt holds it in d02 and d28 only.
PlainDirFiles(d) ==
  (d \o "/a.txt") :>
     FileNode(AsciiBytes(IF d \in {"/w/d02", "/w/d28"} THEN "foo\n" ELSE "x\n"), TRUE)
  @@ [p \in {d \o "/b" \o TwoDigits(j) \o ".png" : j \in 1..14} |->
        FileNode(AsciiBytes("foo\n"), TRUE)]

\* The files of d27: a.txt is the 391st file in sorted order, b01.PNG ..
\* b08.PNG the 392nd to the 399th, c.txt the 400th, e.txt the 401st, and
\* f01.woff2 .. f04.woff2 the 402nd to the 405th.
LastDirFiles(d) ==
  (d \o "/a.txt") :> FileNode(AsciiBytes("x\n"), TRUE)
  @@ (d \o "/c.txt") :> FileNode(AsciiBytes("x\nfoo\n"), TRUE)
  @@ (d \o "/e.txt") :> FileNode(AsciiBytes("foo\nx\n"), TRUE)
  @@ [p \in {d \o "/b" \o TwoDigits(j) \o ".PNG" : j \in 1..8} |->
        FileNode(AsciiBytes("foo\n"), TRUE)]
  @@ [p \in {d \o "/f" \o TwoDigits(j) \o ".woff2" : j \in 1..4} |->
        FileNode(AsciiBytes("foo\n"), TRUE)]

RECURSIVE DirFilesOf(_)
DirFilesOf(dirs) ==
  IF dirs = {} THEN <<>>
  ELSE IF (CHOOSE d \in dirs : TRUE) = "/w/d27"
    THEN LastDirFiles("/w/d27") @@ DirFilesOf(dirs \ {"/w/d27"})
  ELSE PlainDirFiles(CHOOSE d \in dirs : TRUE)
         @@ DirFilesOf(dirs \ {CHOOSE d \in dirs : TRUE})

ManyTree ==
  "/" :> DirNode(TRUE) @@ "/w" :> DirNode(TRUE)
  @@ [d \in ManyDirs |-> DirNode(TRUE)]
  @@ DirFilesOf(ManyDirs)

\* A file of 200,002 bytes: the line "foo", then a line of 199,995 times "x"
\* and "foo", whose "f" is the 200,000th byte of the file
LongBytes ==
  [i \in 1..200002 |->
     IF i \in {1, 200000} THEN Code["f"]
     ELSE IF i \in {2, 3, 200001, 200002} THEN Code["o"]
     ELSE IF i = 4 THEN Code["\n"]
     ELSE Code["x"]]

LongFileTree ==
  "/" :> DirNode(TRUE) @@ "/w" :> DirNode(TRUE)
  @@ "/w/a.txt" :> FileNode(AsciiBytes("x\nfoo"), TRUE)
  @@ "/w/long.txt" :> FileNode(LongBytes, TRUE)

BigTrees == {ManyTree, LongFileTree}

BigCalls ==
  {[tool |-> "searchText",
    input |-> RawInput("object", Undefined, JString("foo"), Undefined, c, Undefined),
    ord |-> o] :
     c \in {Undefined, JInt(1), JInt(2), JInt(500)}, o \in DirOrders}

BigInit ==
  /\ fs \in BigTrees
  /\ rootAbs = makeRepoTools("/w")
  /\ pc = "idle"
  /\ call = NoCall
  /\ outcome = NoOutcome
  /\ fsOps = <<>>
  /\ events = <<>>
  /\ steps = <<>>
  /\ ClientAtRest
  /\ ConcAtRest
  /\ AdapterAtRest

\* The execute of searchText is called: it runs to its first readdir
BigCall ==
  /\ procs["p"].pc = "idle"
  /\ \E c \in BigCalls :
       procs' = [procs EXCEPT !["p"] = called(rootAbs, c.tool, c.input, c.ord)]
  /\ log' = log \o procs'["p"].events
  /\ UNCHANGED toolVars
  /\ UNCHANGED clientVars
  /\ UNCHANGED adapterVars

BigNext == BigCall \/ Step("p") \/ TakeAll

BigSpec == BigInit /\ [][BigNext]_vars

\* The search of the big trees, and whether it has returned
BigSearch == procs["p"]
BigReturned == BigSearch.pc = "settled" /\ BigSearch.outcome.status = "returned"

\* The root-relative paths of the files the search has read, in the order of
\* the reads
BigReads ==
  LET r == SelectSeq(BigSearch.ops, LAMBDA o : o.op = "readFile")
  IN [i \in 1..Len(r) |-> PathRelative(rootAbs, r[i].path)]

\* rel ends in a dot and an extension of the binary list, in any case
ClaimedBinary(rel) ==
  \E e \in {"png", "jpg", "jpeg", "gif", "webp", "ico", "zip", "gz", "tgz", "jar",
            "pdf", "woff", "woff2"} :
    /\ Len(rel) > Len(e)
    /\ ToLowerCase(SubSeq(rel, Len(rel) - Len(e), Len(rel))) = "." \o e

\* The files of the set allowed that are among its first 400 in sorted order
\* and have no binary extension
SearchCandidates(allowed) ==
  {x \in {y \in allowed : ~ClaimedBinary(y)} :
     Cardinality({y \in allowed : StrLess(y, x)}) < 400}

\* The numbers of the lines, among the first 200,000 bytes of the file rel,
\* that contain q
LinesWithin(rel, q) ==
  LET lines == SplitLines(Utf8Decode(SliceTo(fs[RootReal.path \o "/" \o rel].bytes,
                                             200000)))
  IN {k \in 1..Len(lines) : Contains(lines[k], q)}

\* C24: the files searchText reads are, in sorted order and until maxMatches
\* matches are found, the files without a binary extension among the first
\* 400 of the sorted listing of the allowed files: the cap of 400 comes before
\* the extension filter and is no function of maxMatches; and the matches of
\* a file are lines of its first 200,000 bytes.
C24_SearchReadsFirst400NonBinary ==
  BigReturned =>
    LET reads == BigReads
        readSet == {reads[i] : i \in 1..Len(reads)}
        found == BigSearch.outcome.value.matches
        cap == effectiveCap(Field(BigSearch.call.input, "maxMatches"),
                            DEFAULT_MAX_MATCHES)
        q == BigSearch.call.input.query.s
        candidates == SearchCandidates(OrdinaryFiles)
    IN /\ \A i \in 1..(Len(reads) - 1) : StrLess(reads[i], reads[i + 1])
       /\ readSet \subseteq candidates
       /\ \A i \in 1..Len(reads) :
            Cardinality({k \in 1..Len(found) : StrLess(found[k].path, reads[i])}) < cap
       /\ \A f \in candidates \ readSet :
            /\ Len(found) = cap
            /\ \A r \in readSet : StrLess(r, f)
       /\ \A k \in 1..Len(found) : found[k].path \in readSet
       /\ \A f \in readSet :
            LET within == LinesWithin(f, q)
                got == {found[k].line : k \in {j \in 1..Len(found) : found[j].path = f}}
            IN got \subseteq within /\ (got = within \/ Len(found) = cap)

\* C24 happens: of 420 files, the search for "foo" with the default
\* maxMatches has read the 28 text files among the first 400, the last of
\* them the 400th, d27/c.txt; the 401st, d27/e.txt, and d28/a.txt hold "foo"
\* and are not read, though only two matches are found.
C24_Witness ==
  /\ BigReturned
  /\ BigSearch.call.input.query.s = "foo"
  /\ Field(BigSearch.call.input, "maxMatches") = Undefined
  /\ BigSearch.call.ord = "desc"
  /\ Cardinality(OrdinaryFiles) = 420
  /\ Len(BigReads) = 28
  /\ BigReads[28] = "d27/c.txt"
  /\ Cardinality({y \in OrdinaryFiles : StrLess(y, "d27/c.txt")}) = 399
  /\ {"d27/e.txt", "d28/a.txt"} \subseteq OrdinaryFiles
  /\ Len(BigSearch.outcome.value.matches) = 2

\* C24 happens for a long file: long.txt has 200,002 bytes and "foo" on its
\* first line and at bytes 200,000 to 200,002; the search finds the first
\* line only
C24_WitnessLongFile ==
  /\ BigReturned
  /\ BigSearch.call.input.query.s = "foo"
  /\ Field(BigSearch.call.input, "maxMatches") = Undefined
  /\ "/w/long.txt" \in DOMAIN fs
  /\ Len(fs["/w/long.txt"].bytes) = 200002
  /\ SubSeq(fs["/w/long.txt"].bytes, 200000, 200002) = AsciiBytes("foo")
  /\ {[path |-> m.path, line |-> m.line] :
        m \in {BigSearch.outcome.value.matches[k] :
                 k \in 1..Len(BigSearch.outcome.value.matches)}}
       = {[path |-> "a.txt", line |-> 2], [path |-> "long.txt", line |-> 1]}

====
